---- MODULE Spec2Model ----
(***************************************************************************)
(* Funding-rate arbitrage bot: the arbitrage engine of strategy.py, its    *)
(* JSON position store, the driver loop of main.py and the endpoint        *)
(* fallback chains of BitgetAPI (streamlit_app.py) and mannual.py.         *)
(*                                                                         *)
(* Units.  Python floats are modelled in fixed point:                      *)
(*   funding rates      in 1e-6        (0.0001 is 100)                     *)
(*   base quantities    in 1e-6        (the 6 digits of f"{x:.6f}")        *)
(*   prices, notionals  in whole USD                                       *)
(*   time               in hours       (time.time() / 3600)                *)
(***************************************************************************)
EXTENDS Integers, Sequences, FiniteSets, TLC

VARIABLES
    position,             \* FundingArbStrategy.position (in memory)
    store,                \* the file state.json
    funding_threshold,    \* FundingArbStrategy.funding_threshold
    target_usd_notional,  \* FundingArbStrategy.target_usd_notional
    now,                  \* the wall clock read by _now()
    alive,                \* the process of main.py is running
    pc,                   \* where the driver loop of main.py is
    ticks,                \* iterations of the driver loop started so far
    restarts,             \* process starts after the first
    exch,                 \* orders the exchange has accepted
    lastOp,               \* what the most recent operation did
    call                  \* the most recent BitgetAPI call (resolver specifications)

vars == <<position, store, funding_threshold, target_usd_notional, now, alive,
          pc, ticks, restarts, exch, lastOp, call>>

----------------------------------------------------------------------------
(* Bounds of the model *)

MaxTicks == 3
MaxRestarts == 1

----------------------------------------------------------------------------
(* Program constants *)

\* strategy.py:40 and main.py:45, funding_threshold = 0.0001
DefaultFundingThreshold == 100
\* strategy.py:43 and main.py:46, target_usd_notional = 50
DefaultUsdNotional == 50
\* strategy.py:135, 8 * 3600 seconds
HoldingWindowHours == 8
\* strategy.py:143, the floor 0.00001 of the quantity, in 1e-6
MinQtyMicro == 10
\* strategy.py:144, six fractional digits
QtyScale == 1000000

SymbolSpot == "BTCUSDT"
SymbolPerp == "BTCUSDT_UMCBL"
MarginCoin == "USDT"

----------------------------------------------------------------------------
(* Optional values and PositionState *)

NoneVal == [some |-> FALSE, v |-> 0]
Some(x) == [some |-> TRUE, v |-> x]

\* self.position = None
NoPosition == [held |-> FALSE]

\* the dataclass PositionState
PositionState(ss, sp, usd, sq, ps, emp, ots, cts) ==
    [held |-> TRUE, symbol_spot |-> ss, symbol_perp |-> sp, usd_notional |-> usd,
     spot_qty |-> sq, perp_size |-> ps, entry_mark_price |-> emp,
     opened_ts |-> ots, closed_ts |-> cts]

PositionFields ==
    <<"symbol_spot", "symbol_perp", "usd_notional", "spot_qty", "perp_size",
      "entry_mark_price", "opened_ts", "closed_ts">>

----------------------------------------------------------------------------
(* JSON text.  A number is written as its sign and decimal digits and read *)
(* back from them; a file is the sequence of lines json.dump(indent=2)     *)
(* writes.                                                                 *)

RECURSIVE DigitsOf(_)
DigitsOf(n) ==
    IF n < 10 THEN <<n>> ELSE Append(DigitsOf(n \div 10), n % 10)

RECURSIVE ValueOf(_)
ValueOf(ds) ==
    IF Len(ds) = 0 THEN 0
    ELSE 10 * ValueOf(SubSeq(ds, 1, Len(ds) - 1)) + ds[Len(ds)]

Abs(n) == IF n < 0 THEN -n ELSE n

\* json.dump of one value
JsonNull == [t |-> "null", neg |-> FALSE, digits |-> <<>>, s |-> ""]
JsonNum(n) == [t |-> "num", neg |-> n < 0, digits |-> DigitsOf(Abs(n)), s |-> ""]
JsonStr(x) == [t |-> "str", neg |-> FALSE, digits |-> <<>>, s |-> x]

\* json.load of one number
ParseNum(j) == IF j.neg THEN -ValueOf(j.digits) ELSE ValueOf(j.digits)

Line(tok, key, val) == [tok |-> tok, key |-> key, val |-> val]

\* fault: both legs are written from spot_qty
FieldLinesOneQty(p) ==
    << Line("field", "symbol_spot", JsonStr(p.symbol_spot)),
       Line("field", "symbol_perp", JsonStr(p.symbol_perp)),
       Line("field", "usd_notional", JsonNum(p.usd_notional)),
       Line("field", "spot_qty", JsonNum(p.spot_qty)),
       Line("field", "perp_size", JsonNum(p.spot_qty)),
       Line("field", "entry_mark_price", JsonNum(p.entry_mark_price)),
       Line("field", "opened_ts", JsonNum(p.opened_ts)),
       Line("field", "closed_ts",
            IF p.closed_ts.some THEN JsonNum(p.closed_ts.v) ELSE JsonNull) >>

\* asdict(self.position), one line per field in declaration order
FieldLines(p) ==
    << Line("field", "symbol_spot", JsonStr(p.symbol_spot)),
       Line("field", "symbol_perp", JsonStr(p.symbol_perp)),
       Line("field", "usd_notional", JsonNum(p.usd_notional)),
       Line("field", "spot_qty", JsonNum(p.spot_qty)),
       Line("field", "perp_size", JsonNum(p.perp_size)),
       Line("field", "entry_mark_price", JsonNum(p.entry_mark_price)),
       Line("field", "opened_ts", JsonNum(p.opened_ts)),
       Line("field", "closed_ts",
            IF p.closed_ts.some THEN JsonNum(p.closed_ts.v) ELSE JsonNull) >>

\* json.dump({"position": ...}, f, indent=2)
JsonDump(p) ==
    IF p.held
    THEN << Line("{", "", JsonNull), Line("open", "position", JsonNull) >>
         \o FieldLines(p)
         \o << Line("close", "", JsonNull), Line("}", "", JsonNull) >>
    ELSE << Line("{", "", JsonNull), Line("field", "position", JsonNull),
            Line("}", "", JsonNull) >>

\* the file state.json: absent, or a sequence of lines
NoFile == [exists |-> FALSE, text |-> <<>>]
File(text) == [exists |-> TRUE, text |-> text]

\* whether a text is a complete JSON document of the shape _save_state writes
WellFormed(text) ==
    /\ Len(text) >= 3
    /\ text[1].tok = "{"
    /\ text[Len(text)].tok = "}"
    /\ \/ /\ Len(text) = 3
          /\ text[2].tok = "field" /\ text[2].key = "position"
          /\ text[2].val.t = "null"
       \/ /\ Len(text) >= 4
          /\ text[2].tok = "open" /\ text[2].key = "position"
          /\ text[Len(text) - 1].tok = "close"
          /\ \A i \in 3..(Len(text) - 2) : text[i].tok = "field"

\* raw.get("position") of a well-formed text: null, or the object's lines
RawPosition(text) ==
    IF Len(text) = 3 THEN <<>> ELSE SubSeq(text, 3, Len(text) - 2)

HasKey(lines, k) == \E i \in 1..Len(lines) : lines[i].key = k
Lookup(lines, k) == lines[CHOOSE i \in 1..Len(lines) : lines[i].key = k].val

\* the value of a JSON value as Python sees it
PyStr(j) == j.s
PyNum(j) == ParseNum(j)
PyOpt(j) == IF j.t = "null" THEN NoneVal ELSE Some(ParseNum(j))

\* PositionState(**pos): every field without a default must be a key, and no
\* key may be unknown
KwargsOk(lines) ==
    /\ \A i \in 1..(Len(PositionFields) - 1) : HasKey(lines, PositionFields[i])
    /\ \A i \in 1..Len(lines) :
          \E j \in 1..Len(PositionFields) : lines[i].key = PositionFields[j]

FromKwargs(lines) ==
    PositionState(PyStr(Lookup(lines, "symbol_spot")),
                  PyStr(Lookup(lines, "symbol_perp")),
                  PyNum(Lookup(lines, "usd_notional")),
                  PyNum(Lookup(lines, "spot_qty")),
                  PyNum(Lookup(lines, "perp_size")),
                  PyNum(Lookup(lines, "entry_mark_price")),
                  PyNum(Lookup(lines, "opened_ts")),
                  IF HasKey(lines, "closed_ts")
                  THEN PyOpt(Lookup(lines, "closed_ts")) ELSE NoneVal)

----------------------------------------------------------------------------
(* Persistence: FundingArbStrategy._save_state and _load_state *)

\* How a write of state.json can end.  open(path, "w") truncates the file
\* before json.dump writes the first byte.
\*   ok          the whole text is written
\*   open_fails  open() raises OSError, the file is untouched
\*   write_fails the file is truncated, the write raises after `cut` lines
\*   crash       the file is truncated, the process stops after `cut` lines
SaveOk == [how |-> "ok", cut |-> 0]

\* _save_state: the file it leaves and whether it raised or the process died
_save_state(p, file, sv) ==
    LET text == JsonDump(p) IN
    CASE sv.how = "ok" ->
           [file |-> File(text), raised |-> FALSE, died |-> FALSE]
      [] sv.how = "open_fails" ->
           [file |-> file, raised |-> TRUE, died |-> FALSE]
      [] sv.how = "write_fails" ->
           [file |-> File(SubSeq(text, 1, sv.cut)), raised |-> TRUE, died |-> FALSE]
      [] OTHER ->
           [file |-> File(SubSeq(text, 1, sv.cut)), raised |-> FALSE, died |-> TRUE]

\* fault: every exception of the load is treated like a missing file
_load_state_lenient(file) ==
    IF ~file.exists THEN [position |-> NoPosition, raised |-> FALSE]
    ELSE IF ~WellFormed(file.text) THEN [position |-> NoPosition, raised |-> FALSE]
    ELSE LET pos == RawPosition(file.text) IN
         IF Len(pos) = 0 THEN [position |-> NoPosition, raised |-> FALSE]
         ELSE IF ~KwargsOk(pos) THEN [position |-> NoPosition, raised |-> FALSE]
         ELSE [position |-> FromKwargs(pos), raised |-> FALSE]

\* _load_state: the position it sets, or the exception it lets through
\* (json.JSONDecodeError and TypeError are not FileNotFoundError)
_load_state(file) ==
    IF ~file.exists THEN [position |-> NoPosition, raised |-> FALSE]
    ELSE IF ~WellFormed(file.text) THEN [position |-> NoPosition, raised |-> TRUE]
    ELSE LET pos == RawPosition(file.text) IN
         IF Len(pos) = 0 THEN [position |-> NoPosition, raised |-> FALSE]
         ELSE IF ~KwargsOk(pos) THEN [position |-> NoPosition, raised |-> TRUE]
         ELSE [position |-> FromKwargs(pos), raised |-> FALSE]

----------------------------------------------------------------------------
(* Responses of the exchange.  One HTTP attempt (BitgetAPI._request) either *)
(* raises (transport failure or status >= 400) or returns the parsed body.  *)

\* a JSON value inside a response
\*   absent   the key is not there          null     JSON null
\*   num      a JSON number                 numstr   a string holding a number
\*   badstr   a non-numeric, non-empty string        emptystr  ""
Absent == [t |-> "absent", v |-> 0]
Null == [t |-> "null", v |-> 0]
Num(n) == [t |-> "num", v |-> n]
NumStr(n) == [t |-> "numstr", v |-> n]
BadStr == [t |-> "badstr", v |-> 0]
EmptyStr == [t |-> "emptystr", v |-> 0]

\* a JSON object with the keys the normalizers look at
Mapping(fr, mp, cl, la) == [fundingRate |-> fr, markPrice |-> mp, close |-> cl, last |-> la]
EmptyMapping == Mapping(Absent, Absent, Absent, Absent)

\* an element of a list: a mapping, or a number
DictElem(m) == [isdict |-> TRUE, map |-> m]
ScalarElem == [isdict |-> FALSE, map |-> EmptyMapping]

\* the body of a response: `src` names the variant that produced it,
\* `isdict` whether the body is a JSON object, `kind` what its "data" is
Payload(src, isdict, kind, elems) ==
    [src |-> src, isdict |-> isdict, kind |-> kind, elems |-> elems]
DataDict(src, m) == Payload(src, TRUE, "dict", <<DictElem(m)>>)
DataList(src, es) == Payload(src, TRUE, "list", es)
DataNull(src) == Payload(src, TRUE, "null", <<>>)
NoPayload == Payload(0, FALSE, "null", <<>>)

\* the exception of one attempt: RuntimeError("HTTP <status> ...") of variant v
HttpError(v, status) == [variant |-> v, status |-> status]
NoError == HttpError(0, 0)

\* what one attempt of one variant does
Ok(p) == [ok |-> TRUE, payload |-> p, err |-> NoError]
Err(e) == [ok |-> FALSE, payload |-> NoPayload, err |-> e]

\* what a call returns to its caller: the payload or the exception, and the
\* variants it attempted, in order
Returned(p, att) == [ok |-> TRUE, payload |-> p, err |-> NoError, attempts |-> att]
Raised(e, att) == [ok |-> FALSE, payload |-> NoPayload, err |-> e, attempts |-> att]

----------------------------------------------------------------------------
(* BitgetAPI: the fallback chains.  `rs` gives, for each variant in the     *)
(* configured order, what an attempt of it would do.                        *)

\* fault: a failed variant 1 is tried once more before variant 2
get_funding_rate_retry(rs) ==
    IF rs[1].ok THEN Returned(rs[1].payload, <<1>>)
    ELSE IF rs[2].ok THEN Returned(rs[2].payload, <<1, 1, 2>>)
    ELSE Raised(rs[2].err, <<1, 1, 2>>)

\* get_funding_rate: try variant 1, on any exception return variant 2's result
get_funding_rate(rs) ==
    IF rs[1].ok THEN Returned(rs[1].payload, <<1>>)
    ELSE IF rs[2].ok THEN Returned(rs[2].payload, <<1, 2>>)
    ELSE Raised(rs[2].err, <<1, 2>>)

\* RuntimeError("Mark price fetch failed")
MarkPriceFetchFailed == HttpError(0, 0)

\* the loop of get_mark_price from variant i on
RECURSIVE MarkPriceLoop(_, _, _)
MarkPriceLoop(rs, i, att) ==
    IF i > Len(rs) THEN Raised(MarkPriceFetchFailed, att)
    ELSE IF rs[i].ok THEN Returned(rs[i].payload, Append(att, i))
    ELSE MarkPriceLoop(rs, i + 1, Append(att, i))

get_mark_price(rs) == MarkPriceLoop(rs, 1, <<>>)

\* the loop of place_spot_order from variant i on; `lst` is the variable last
RECURSIVE SpotOrderLoop(_, _, _, _)
SpotOrderLoop(rs, i, att, lst) ==
    IF i > Len(rs) THEN Raised(lst, att)
    ELSE IF rs[i].ok THEN Returned(rs[i].payload, Append(att, i))
    ELSE SpotOrderLoop(rs, i + 1, Append(att, i), rs[i].err)

place_spot_order(rs) == SpotOrderLoop(rs, 1, <<>>, NoError)

\* fault: after both paths have failed the v1 path is tried once more
place_mix_order_retry(rs) ==
    IF rs[1].ok THEN Returned(rs[1].payload, <<1>>)
    ELSE IF rs[2].ok THEN Returned(rs[2].payload, <<1, 2>>)
    ELSE Raised(rs[2].err, <<1, 2, 2>>)

\* place_mix_order: try the v2 path, on any exception return the v1 result
place_mix_order(rs) ==
    IF rs[1].ok THEN Returned(rs[1].payload, <<1>>)
    ELSE IF rs[2].ok THEN Returned(rs[2].payload, <<1, 2>>)
    ELSE Raised(rs[2].err, <<1, 2>>)

----------------------------------------------------------------------------
(* mannual.py: the same chains of the single-file front-end *)

RECURSIVE ManualSpotOrderLoop(_, _, _, _)
ManualSpotOrderLoop(rs, i, att, last_err) ==
    IF i > Len(rs) THEN Raised(last_err, att)
    ELSE IF rs[i].ok THEN Returned(rs[i].payload, Append(att, i))
    ELSE ManualSpotOrderLoop(rs, i + 1, Append(att, i), rs[i].err)

manual_place_spot_order(rs) == ManualSpotOrderLoop(rs, 1, <<>>, NoError)

manual_place_mix_order(rs) ==
    IF rs[1].ok THEN Returned(rs[1].payload, <<1>>)
    ELSE IF rs[2].ok THEN Returned(rs[2].payload, <<1, 2>>)
    ELSE Raised(rs[2].err, <<1, 2>>)

----------------------------------------------------------------------------
(* Response normalizers of the engine: _get_current_funding, _get_mark_price *)

\* float(x): a number or a numeric string converts, anything else raises
FloatOk(x) == x.t \in {"num", "numstr"}

\* Python truthiness of a value fetched with dict.get
Truthy(x) == x.t \in {"numstr", "badstr"} \/ (x.t = "num" /\ x.v # 0)

\* "key in d"
HasField(x) == x.t # "absent"

\* what a normalizer hands to its caller: the number, or the exception it
\* raises and the payload that exception's message carries
Value(v) == [ok |-> TRUE, v |-> v, exc |-> "none", carries |-> NoPayload]
Fail(exc, d) == [ok |-> FALSE, v |-> 0, exc |-> exc, carries |-> d]
\* the exception of the API call, passed on unchanged
Failure == Fail("api", NoPayload)
\* RuntimeError(f"Unexpected ... response: {data}")
ShapeError(d) == Fail("RuntimeError", d)

\* _get_current_funding applied to the payload the API returned; whatever
\* float() raises is logged and replaced by the RuntimeError of line 97
ParseFunding(d) ==
    IF ~d.isdict THEN ShapeError(d)
    ELSE IF d.kind = "dict" /\ HasField(d.elems[1].map.fundingRate)
    THEN (IF FloatOk(d.elems[1].map.fundingRate)
          THEN Value(d.elems[1].map.fundingRate.v) ELSE ShapeError(d))
    ELSE IF d.kind = "list" /\ Len(d.elems) > 0
            /\ d.elems[1].isdict /\ HasField(d.elems[1].map.fundingRate)
    THEN (IF FloatOk(d.elems[1].map.fundingRate)
          THEN Value(d.elems[1].map.fundingRate.v) ELSE ShapeError(d))
    ELSE ShapeError(d)

\* m.get("markPrice") or m.get("close") or m.get("last")
OrChain(m) ==
    IF Truthy(m.markPrice) THEN m.markPrice
    ELSE IF Truthy(m.close) THEN m.close
    ELSE m.last

\* "mp is not None": an absent key and a null both read as None
IsNone(x) == x.t \in {"absent", "null"}

\* _get_mark_price applied to the payload the API returned
ParseMark(d) ==
    IF ~d.isdict THEN ShapeError(d)
    ELSE IF d.kind = "dict" /\ ~IsNone(OrChain(d.elems[1].map))
    THEN (IF FloatOk(OrChain(d.elems[1].map))
          THEN Value(OrChain(d.elems[1].map).v) ELSE ShapeError(d))
    ELSE IF d.kind = "list" /\ Len(d.elems) > 0
            /\ d.elems[1].isdict /\ ~IsNone(OrChain(d.elems[1].map))
    THEN (IF FloatOk(OrChain(d.elems[1].map))
          THEN Value(OrChain(d.elems[1].map).v) ELSE ShapeError(d))
    ELSE ShapeError(d)

\* _get_current_funding: the API call, then the parse
_get_current_funding(rs) ==
    LET r == get_funding_rate(rs) IN
    IF r.ok THEN ParseFunding(r.payload) ELSE Failure

\* _get_mark_price: the API call, then the parse
_get_mark_price(rs) ==
    LET r == get_mark_price(rs) IN
    IF r.ok THEN ParseMark(r.payload) ELSE Failure

\* what float(x) raises for a value it cannot convert
FloatError(x) == IF x.t = "null" THEN "TypeError" ELSE "ValueError"

\* mannual.py, get_funding_rate after the request: nothing is caught, so
\* d.get on a body that is not an object, `in` on a list element that is a
\* number, and float() each raise their own exception
ManualParseFunding(d) ==
    IF ~d.isdict THEN Fail("AttributeError", NoPayload)
    ELSE IF d.kind = "dict" /\ HasField(d.elems[1].map.fundingRate)
    THEN (IF FloatOk(d.elems[1].map.fundingRate)
          THEN Value(d.elems[1].map.fundingRate.v)
          ELSE Fail(FloatError(d.elems[1].map.fundingRate), NoPayload))
    ELSE IF d.kind = "list" /\ Len(d.elems) > 0
    THEN (IF ~d.elems[1].isdict THEN Fail("TypeError", NoPayload)
          ELSE IF ~HasField(d.elems[1].map.fundingRate) THEN ShapeError(d)
          ELSE IF FloatOk(d.elems[1].map.fundingRate)
          THEN Value(d.elems[1].map.fundingRate.v)
          ELSE Fail(FloatError(d.elems[1].map.fundingRate), NoPayload))
    ELSE ShapeError(d)

\* mannual.py, get_funding_rate: the v2 request, on RuntimeError the v1
\* request, then the parse
manual_get_funding_rate(rs) ==
    IF rs[1].ok THEN ManualParseFunding(rs[1].payload)
    ELSE IF rs[2].ok THEN ManualParseFunding(rs[2].payload)
    ELSE Failure

\* what a read returns together with the variants it attempted
Read(result, attempts) == [result |-> result, attempts |-> attempts]

\* the engine's mark-price read: BitgetAPI.get_mark_price returns the body of
\* the first variant that answers, _get_mark_price then parses it
EngineMarkRead(rs) == Read(_get_mark_price(rs), get_mark_price(rs).attempts)

\* RuntimeError("Mark price fetch failed across endpoints")
ManualMarkPriceFetchFailed == Fail("MarkPriceFetchFailed", NoPayload)

\* mannual.py, the loop of get_mark_price from variant i on.  The parse is
\* inside the loop: a RuntimeError of the request moves on to the next
\* variant, and so does a body in which no price is found (the try block
\* ends without a return); d.get on a body that is not an object,
\* payload[0].get on an element that is a number, and float() raise
\* exceptions that are not RuntimeError and leave the function
RECURSIVE ManualMarkPriceLoop(_, _, _)
ManualMarkPriceLoop(rs, i, att) ==
    IF i > Len(rs) THEN Read(ManualMarkPriceFetchFailed, att)
    ELSE IF ~rs[i].ok THEN ManualMarkPriceLoop(rs, i + 1, Append(att, i))
    ELSE LET d == rs[i].payload
             here == Append(att, i)
         IN  IF ~d.isdict THEN Read(Fail("AttributeError", NoPayload), here)
             ELSE IF d.kind = "dict" /\ ~IsNone(OrChain(d.elems[1].map))
             THEN (IF FloatOk(OrChain(d.elems[1].map))
                   THEN Read(Value(OrChain(d.elems[1].map).v), here)
                   ELSE Read(Fail(FloatError(OrChain(d.elems[1].map)), NoPayload), here))
             ELSE IF d.kind = "list" /\ Len(d.elems) > 0
             THEN (IF ~d.elems[1].isdict THEN Read(Fail("AttributeError", NoPayload), here)
                   ELSE IF IsNone(OrChain(d.elems[1].map))
                   THEN ManualMarkPriceLoop(rs, i + 1, here)
                   ELSE IF FloatOk(OrChain(d.elems[1].map))
                   THEN Read(Value(OrChain(d.elems[1].map).v), here)
                   ELSE Read(Fail(FloatError(OrChain(d.elems[1].map)), NoPayload), here))
             ELSE ManualMarkPriceLoop(rs, i + 1, here)

manual_get_mark_price(rs) == ManualMarkPriceLoop(rs, 1, <<>>)

----------------------------------------------------------------------------
(* Quantities: max(usd / mark_price, 0.00001) and f"{x:.6f}" *)

\* round(n / d) to the nearest integer, ties to even, for n >= 0 and d > 0:
\* what the format specifier .6f does with the scaled value
RoundHalfEven(n, d) ==
    LET q == n \div d
        r == n % d
    IN  IF 2 * r < d THEN q
        ELSE IF 2 * r > d THEN q + 1
        ELSE IF q % 2 = 0 THEN q ELSE q + 1

\* f"{n/d:.6f}" for n/d >= 0, as the digits of the value in 1e-6
Format6(n, d) == DigitsOf(RoundHalfEven(Abs(n) * QtyScale, Abs(d)))

\* float(qty_str), in 1e-6
FloatOfQty(qty_str) == ValueOf(qty_str)

\* usd / mark_price < 0.00001, for mark_price # 0
BelowMinQty(usd, mark_price) ==
    IF mark_price > 0
    THEN usd * QtyScale < MinQtyMicro * mark_price
    ELSE usd * QtyScale > MinQtyMicro * mark_price

\* qty_str of _open_pair_trade: f"{max(usd / mark_price, 0.00001):.6f}"
EntryQtyStr(usd, mark_price) ==
    IF BelowMinQty(usd, mark_price)
    THEN Format6(MinQtyMicro, QtyScale)
    ELSE Format6(usd, mark_price)

----------------------------------------------------------------------------
(* The engine: FundingArbStrategy.check_and_trade and the two trades.      *)
(* fv, mv, sv, pv give what the attempts of the funding-rate, mark-price,   *)
(* spot-order and derivative-order variants do; sav how a write of          *)
(* state.json ends.                                                         *)

\* one call of api.place_spot_order or api.place_mix_order by the engine, and
\* what the call did: r.ok whether a variant accepted the order, r.attempts
\* the variants it sent the order to
OrderCall(api, side, quantity, quote_amount, r) ==
    [api |-> api, side |-> side, quantity |-> quantity, order_type |-> "market",
     quote_amount |-> quote_amount, ok |-> r.ok, attempts |-> Len(r.attempts)]

\* what an operation of the engine leaves behind
Outcome(p, file, calls, mark_read, created, raised, died) ==
    [position |-> p, file |-> file, calls |-> calls, mark_read |-> mark_read,
     created |-> created, raised |-> raised, died |-> died]

\* fault: the Position is recorded although the derivative order failed
_open_pair_trade_unchecked(pos, file, usd, t, mv, sv, pv, sav) ==
    LET mk == _get_mark_price(mv) IN
    IF ~mk.ok \/ mk.v = 0
    THEN Outcome(pos, file, <<>>, TRUE, FALSE, TRUE, FALSE)
    ELSE
    LET qty_str == EntryQtyStr(usd, mk.v)
        spot == place_spot_order(sv)
        c1 == OrderCall("spot", "buy", qty_str, Some(usd), spot)
        perp == place_mix_order(pv)
        c2 == OrderCall("mix", "open_short", qty_str, NoneVal, perp)
        np == PositionState(SymbolSpot, SymbolPerp, usd, FloatOfQty(qty_str),
                            FloatOfQty(qty_str), mk.v, t, NoneVal)
        sr == _save_state(np, file, sav)
    IN  IF ~spot.ok THEN Outcome(pos, file, <<c1>>, TRUE, FALSE, TRUE, FALSE)
        ELSE Outcome(np, sr.file, <<c1, c2>>, TRUE, TRUE, sr.raised \/ ~perp.ok, sr.died)

_open_pair_trade(pos, file, usd, t, mv, sv, pv, sav) ==
    LET mk == _get_mark_price(mv) IN
    IF ~mk.ok \/ mk.v = 0
    THEN \* RuntimeError of _get_mark_price, or ZeroDivisionError of usd / mark_price
         Outcome(pos, file, <<>>, TRUE, FALSE, TRUE, FALSE)
    ELSE
    LET qty_str == EntryQtyStr(usd, mk.v)
        spot == place_spot_order(sv)
        c1 == OrderCall("spot", "buy", qty_str, Some(usd), spot)
        perp == place_mix_order(pv)
        c2 == OrderCall("mix", "open_short", qty_str, NoneVal, perp)
        np == PositionState(SymbolSpot, SymbolPerp, usd, FloatOfQty(qty_str),
                            FloatOfQty(qty_str), mk.v, t, NoneVal)
        sr == _save_state(np, file, sav)
    IN  IF ~spot.ok THEN Outcome(pos, file, <<c1>>, TRUE, FALSE, TRUE, FALSE)
        ELSE IF ~perp.ok THEN Outcome(pos, file, <<c1, c2>>, TRUE, FALSE, TRUE, FALSE)
        ELSE Outcome(np, sr.file, <<c1, c2>>, TRUE, TRUE, sr.raised, sr.died)

\* fault: the exit recomputes the size from notional and entry price
_close_pair_trade_recomputed(pos, file, t, sv, pv, sav) ==
    IF ~pos.held THEN Outcome(pos, file, <<>>, FALSE, FALSE, FALSE, FALSE)
    ELSE
    LET qty_str == Format6(pos.usd_notional, pos.entry_mark_price)
        spot == place_spot_order(sv)
        c1 == OrderCall("spot", "sell", qty_str, NoneVal, spot)
        perp == place_mix_order(pv)
        c2 == OrderCall("mix", "close_short", qty_str, NoneVal, perp)
        stamped == [pos EXCEPT !.closed_ts = Some(t)]
        sr == _save_state(stamped, file, sav)
    IN  IF ~spot.ok THEN Outcome(pos, file, <<c1>>, FALSE, FALSE, TRUE, FALSE)
        ELSE IF ~perp.ok THEN Outcome(pos, file, <<c1, c2>>, FALSE, FALSE, TRUE, FALSE)
        ELSE IF sr.raised \/ sr.died
             THEN Outcome(stamped, sr.file, <<c1, c2>>, FALSE, FALSE, sr.raised, sr.died)
        ELSE Outcome(NoPosition, sr.file, <<c1, c2>>, FALSE, FALSE, FALSE, FALSE)

_close_pair_trade(pos, file, t, sv, pv, sav) ==
    IF ~pos.held THEN Outcome(pos, file, <<>>, FALSE, FALSE, FALSE, FALSE)
    ELSE
    LET qty_str == Format6(pos.spot_qty, QtyScale)
        spot == place_spot_order(sv)
        c1 == OrderCall("spot", "sell", qty_str, NoneVal, spot)
        perp == place_mix_order(pv)
        c2 == OrderCall("mix", "close_short", qty_str, NoneVal, perp)
        stamped == [pos EXCEPT !.closed_ts = Some(t)]
        sr == _save_state(stamped, file, sav)
    IN  IF ~spot.ok THEN Outcome(pos, file, <<c1>>, FALSE, FALSE, TRUE, FALSE)
        ELSE IF ~perp.ok THEN Outcome(pos, file, <<c1, c2>>, FALSE, FALSE, TRUE, FALSE)
        ELSE IF sr.raised \/ sr.died
             THEN Outcome(stamped, sr.file, <<c1, c2>>, FALSE, FALSE, sr.raised, sr.died)
        ELSE Outcome(NoPosition, sr.file, <<c1, c2>>, FALSE, FALSE, FALSE, FALSE)

\* the two exit tests of check_and_trade
\* fault: funding equal to the threshold counts as below it
FundingNotAbove(funding, threshold) == funding <= threshold
FundingBelow(funding, threshold) == funding < threshold
\* fault: the window test is inclusive
WindowReached(t, opened_ts) == t - opened_ts >= HoldingWindowHours
WindowPassed(t, opened_ts) == t - opened_ts > HoldingWindowHours

\* the entry test of check_and_trade
\* fault: the entry test is strict, as the class docstring words it
FundingAbove(funding, threshold) == funding > threshold
\* fault: the entry test is inverted
FundingAtMost(funding, threshold) == funding <= threshold
FundingAtLeast(funding, threshold) == funding >= threshold

\* fault: the entry is not guarded by "self.position is None"
check_and_trade_unguarded(pos, file, threshold, usd, t, fv, mv, sv, pv, sav) ==
    LET funding == _get_current_funding(fv) IN
    IF ~funding.ok THEN Outcome(pos, file, <<>>, FALSE, FALSE, TRUE, FALSE)
    ELSE IF FundingAtLeast(funding.v, threshold)
    THEN _open_pair_trade(pos, file, usd, t, mv, sv, pv, sav)
    ELSE Outcome(pos, file, <<>>, FALSE, FALSE, FALSE, FALSE)

\* fault: a held position is closed when the funding rate cannot be read
check_and_trade_closes_unread(pos, file, threshold, usd, t, fv, mv, sv, pv, sav) ==
    LET funding == _get_current_funding(fv) IN
    IF ~funding.ok
    THEN (IF pos.held THEN _close_pair_trade(pos, file, t, sv, pv, sav)
          ELSE Outcome(pos, file, <<>>, FALSE, FALSE, TRUE, FALSE))
    ELSE IF ~pos.held
    THEN (IF FundingAtLeast(funding.v, threshold)
          THEN _open_pair_trade(pos, file, usd, t, mv, sv, pv, sav)
          ELSE Outcome(pos, file, <<>>, FALSE, FALSE, FALSE, FALSE))
    ELSE IF FundingBelow(funding.v, threshold)
    THEN _close_pair_trade(pos, file, t, sv, pv, sav)
    ELSE IF WindowPassed(t, pos.opened_ts)
    THEN _close_pair_trade(pos, file, t, sv, pv, sav)
    ELSE Outcome(pos, file, <<>>, FALSE, FALSE, FALSE, FALSE)

check_and_trade(pos, file, threshold, usd, t, fv, mv, sv, pv, sav) ==
    LET funding == _get_current_funding(fv) IN
    IF ~funding.ok THEN Outcome(pos, file, <<>>, FALSE, FALSE, TRUE, FALSE)
    ELSE IF ~pos.held
    THEN (IF FundingAtLeast(funding.v, threshold)
          THEN _open_pair_trade(pos, file, usd, t, mv, sv, pv, sav)
          ELSE Outcome(pos, file, <<>>, FALSE, FALSE, FALSE, FALSE))
    ELSE IF FundingBelow(funding.v, threshold)
    THEN _close_pair_trade(pos, file, t, sv, pv, sav)
    ELSE IF WindowPassed(t, pos.opened_ts)
    THEN _close_pair_trade(pos, file, t, sv, pv, sav)
    ELSE Outcome(pos, file, <<>>, FALSE, FALSE, FALSE, FALSE)

----------------------------------------------------------------------------
(* The environment of the engine: what the exchange answers and how a      *)
(* write of state.json ends.                                                *)

\* funding rates variant 1 answers with: 0.00005, 0.0001 (0.00015 is the
\* answer of variant 2 after variant 1 has failed)
Rates == {50, 100}
\* mark prices variant 1 returns under markPrice (50000 is the answer of
\* variant 4, under last, after the others have failed)
Prices == {0, 30000, 10000000}
\* configured notionals (USD_NOTIONAL)
Notionals == {DefaultUsdNotional}
\* hours that pass between two ticks
SleepHours == {4, 9}

ClientError(v) == Err(HttpError(v, 400))
FundingDict(v, r) == DataDict(v, Mapping(NumStr(r), Absent, Absent, Absent))
FundingList(v, r) == DataList(v, <<DictElem(Mapping(NumStr(r), Absent, Absent, Absent))>>)
MarkDict(v, p) == DataDict(v, Mapping(Absent, NumStr(p), Absent, Absent))
MarkListLast(v, p) == DataList(v, <<DictElem(Mapping(Absent, Absent, Absent, NumStr(p)))>>)
OrderAck(v) == DataDict(v, EmptyMapping)

FundingVectors ==
    {<<Ok(FundingDict(1, r)), Ok(FundingDict(2, 150))>> : r \in Rates}
    \cup {<<ClientError(1), Ok(FundingList(2, 150))>>,
          <<ClientError(1), ClientError(2)>>,
          <<Ok(DataNull(1)), Ok(FundingDict(2, 150))>>}

MarkAllFail == <<ClientError(1), ClientError(2), ClientError(3), ClientError(4)>>

MarkVectors ==
    {<<Ok(MarkDict(1, p)), Ok(MarkDict(2, 40000)), Ok(MarkDict(3, 40000)),
       Ok(MarkDict(4, 40000))>> : p \in Prices}
    \cup {<<ClientError(1), ClientError(2), ClientError(3), Ok(MarkListLast(4, 50000))>>,
          <<Ok(DataNull(1)), Ok(MarkDict(2, 40000)), Ok(MarkDict(3, 40000)),
            Ok(MarkDict(4, 40000))>>,
          MarkAllFail}

SpotAllFail == <<ClientError(1), ClientError(2), ClientError(3)>>
SpotVectors ==
    {<<ClientError(1), ClientError(2), Ok(OrderAck(3))>>, SpotAllFail}

PerpAllFail == <<ClientError(1), ClientError(2)>>
PerpVectors ==
    {<<ClientError(1), Ok(OrderAck(2))>>, PerpAllFail}

\* a write of state.json by the engine ends well, or open() fails, or the
\* process stops with the file empty or one line short of complete
SaveOutcomes(p) ==
    {SaveOk, [how |-> "open_fails", cut |-> 0]}
    \cup {[how |-> "crash", cut |-> c] : c \in {0, Len(JsonDump(p)) - 1}}

Inputs(mv, sv, pv, sav) == [mv |-> mv, sv |-> sv, pv |-> pv, sav |-> sav]
NoInputs == Inputs(MarkAllFail, SpotAllFail, PerpAllFail, SaveOk)

\* The answers a tick consumes, found by running it against an exchange that
\* refuses everything: it reads the mark price (entry), or places an order
\* (exit), or neither.  Answers that are not consumed are not enumerated.
TradeInputs(p) ==
    {Inputs(MarkAllFail, SpotAllFail, PerpAllFail, SaveOk)}
    \cup {Inputs(MarkAllFail, sv, PerpAllFail, SaveOk) : sv \in SpotVectors \ {SpotAllFail}}
    \cup {Inputs(MarkAllFail, sv, pv, sav) :
            sv \in SpotVectors \ {SpotAllFail}, pv \in PerpVectors \ {PerpAllFail},
            sav \in SaveOutcomes(p)}

AnyHeld == PositionState(SymbolSpot, SymbolPerp, 0, 0, 0, 0, 0, NoneVal)

EntryInputs ==
    {NoInputs}
    \cup {Inputs(mv, SpotAllFail, PerpAllFail, SaveOk) :
            mv \in {m \in MarkVectors : ~_get_mark_price(m).ok \/ _get_mark_price(m).v = 0}}
    \cup {[i EXCEPT !.mv = mv] :
            mv \in {m \in MarkVectors : _get_mark_price(m).ok /\ _get_mark_price(m).v # 0},
            i \in TradeInputs(AnyHeld)}

ExitInputs == TradeInputs(AnyHeld)

InputsFor(pos, file, threshold, usd, t, fv) ==
    LET dry == check_and_trade(pos, file, threshold, usd, t, fv,
                               MarkAllFail, SpotAllFail, PerpAllFail, SaveOk)
    IN  IF dry.mark_read THEN EntryInputs
        ELSE IF Len(dry.calls) > 0 THEN ExitInputs
        ELSE {NoInputs}

----------------------------------------------------------------------------
(* History: what the most recent operation did, and what the exchange has  *)
(* accepted.                                                                *)

\* the market-data reads of an operation: the variants the funding-rate read
\* attempted, what the mark-price read returned and the variants it attempted
Reads(funding_attempts, mark, mark_attempts) ==
    [funding_attempts |-> funding_attempts, mark |-> mark, mark_attempts |-> mark_attempts]
NoReads == Reads(0, Failure, 0)

\* the reads of a tick given the answers fv and mv: the funding rate is
\* always read, the mark price when the tick took the entry path
ReadsOf(out, fv, mv) ==
    Reads(Len(get_funding_rate(fv).attempts),
          IF out.mark_read THEN _get_mark_price(mv) ELSE Failure,
          IF out.mark_read THEN Len(get_mark_price(mv).attempts) ELSE 0)

OpRecord(op, prev, pre_position, pre_store, funding, t, out, reads) ==
    [op |-> op, prev |-> prev, pre_position |-> pre_position, pre_store |-> pre_store,
     funding |-> funding, t |-> t, calls |-> out.calls, mark_read |-> out.mark_read,
     created |-> out.created, raised |-> out.raised, died |-> out.died,
     funding_attempts |-> reads.funding_attempts, mark |-> reads.mark,
     mark_attempts |-> reads.mark_attempts]

IdleOp(op, prev, raised) ==
    OpRecord(op, prev, NoPosition, NoFile, Failure, 0,
             Outcome(NoPosition, NoFile, <<>>, FALSE, FALSE, raised, FALSE), NoReads)

\* the calls of one side the exchange accepted
Placed(calls, side) ==
    Cardinality({i \in 1..Len(calls) : calls[i].side = side /\ calls[i].ok})

NoOrders ==
    [buy |-> 0, sell |-> 0, open_short |-> 0, close_short |-> 0,
     ep_sell |-> 0, ep_close_short |-> 0]

\* ep_sell and ep_close_short count the exits placed for the Position most
\* recently created
Account(e, out) ==
    [buy |-> e.buy + Placed(out.calls, "buy"),
     sell |-> e.sell + Placed(out.calls, "sell"),
     open_short |-> e.open_short + Placed(out.calls, "open_short"),
     close_short |-> e.close_short + Placed(out.calls, "close_short"),
     ep_sell |-> IF out.created THEN 0 ELSE e.ep_sell + Placed(out.calls, "sell"),
     ep_close_short |->
        IF out.created THEN 0 ELSE e.ep_close_short + Placed(out.calls, "close_short")]

NoCall == [op |-> "none", rs |-> <<>>, result |-> Raised(NoError, <<>>)]

----------------------------------------------------------------------------
(* The process: main.py *)

\* FundingArbStrategy.__init__ on a fresh working directory, then the loop
Init ==
    /\ store = NoFile
    /\ position = _load_state(NoFile).position
    /\ funding_threshold = DefaultFundingThreshold
    /\ target_usd_notional \in Notionals
    /\ now = 0
    /\ alive = TRUE
    /\ pc = "tick"
    /\ ticks = 0
    /\ restarts = 0
    /\ exch = NoOrders
    /\ lastOp = IdleOp("init", "none", FALSE)
    /\ call = NoCall

\* fault: the exception of a tick is not caught and ends the process
LoopContinuesUncaught(out) == ~out.died /\ ~out.raised
\* try: strat.check_and_trade() / except Exception: whatever the tick raised
\* is logged and the loop goes on; only a stop of the process ends it
LoopContinues(out) == ~out.died

\* one iteration of `while True`: strat.check_and_trade() inside try/except
Tick ==
    /\ alive /\ pc = "tick" /\ ticks < MaxTicks
    /\ \E fv \in FundingVectors :
         \E i \in InputsFor(position, store, funding_threshold, target_usd_notional,
                            now, fv) :
            \E out \in {check_and_trade(position, store, funding_threshold,
                                         target_usd_notional, now, fv,
                                         i.mv, i.sv, i.pv, i.sav)} :
                /\ position' = out.position
                /\ store' = out.file
                /\ alive' = LoopContinues(out)
                /\ exch' = Account(exch, out)
                /\ lastOp' = OpRecord("tick", lastOp.op, position, store,
                                      _get_current_funding(fv), now, out,
                                      ReadsOf(out, fv, i.mv))
    /\ pc' = "sleep"
    /\ ticks' = ticks + 1
    /\ UNCHANGED <<funding_threshold, target_usd_notional, now, restarts, call>>

\* time.sleep(30), and whatever else makes time pass before the next tick
Sleep ==
    /\ alive /\ pc = "sleep"
    /\ \E d \in SleepHours : now' = now + d
    /\ pc' = "tick"
    /\ lastOp' = IdleOp("sleep", lastOp.op, FALSE)
    /\ UNCHANGED <<position, store, funding_threshold, target_usd_notional, alive,
                   ticks, restarts, exch, call>>

\* the process has stopped, or is stopped while it sleeps, and main() is
\* started again: FundingArbStrategy.__init__ loads state.json outside any try
Restart ==
    /\ restarts < MaxRestarts
    /\ ~alive \/ pc = "sleep"
    /\ LET ld == _load_state(store)
       IN  /\ position' = ld.position
           /\ alive' = ~ld.raised
           /\ lastOp' = IdleOp("restart", lastOp.op, ld.raised)
    /\ pc' = "tick"
    /\ restarts' = restarts + 1
    /\ UNCHANGED <<store, funding_threshold, target_usd_notional, now, ticks,
                   exch, call>>

Next == Tick \/ Sleep \/ Restart

Spec == Init /\ [][Next]_vars

\* The loop is one thread that is never blocked: while the process lives, the
\* statement it stands at is executed.
SpecLoop == Spec /\ WF_vars(Tick) /\ WF_vars(Sleep)

----------------------------------------------------------------------------
(* Properties of the engine, checked under Spec *)

Calls == lastOp.calls
Pre == lastOp.pre_position
TickDone == lastOp.op = "tick"
\* the tick returned without an exception and the process did not stop
Completed == ~lastOp.raised /\ ~lastOp.died
Observed == lastOp.funding.ok
Elapsed == lastOp.t - Pre.opened_ts

IdleTick == TickDone /\ ~Pre.held
OpenTick == TickDone /\ Pre.held
EntryTick == IdleTick /\ Observed /\ lastOp.funding.v >= funding_threshold

\* q (in 1e-6) is max(usd / mark, 0.00001) rounded to 6 fractional digits
IsEntryQty(q, usd, mark) ==
    IF usd * QtyScale < MinQtyMicro * mark
    THEN q = MinQtyMicro
    ELSE 2 * Abs(q * mark - usd * QtyScale) <= mark

IsOrder(c, api, side) == c.api = api /\ c.side = side /\ c.order_type = "market"

\* the tick ended Open with one spot buy and one open_short of the same
\* quantity string, and the Store holds the new Position
EntryEffect ==
    /\ position.held
    /\ Len(Calls) = 2
    /\ IsOrder(Calls[1], "spot", "buy")
    /\ IsOrder(Calls[2], "mix", "open_short")
    /\ Calls[1].quantity = Calls[2].quantity
    /\ IsEntryQty(ValueOf(Calls[1].quantity), target_usd_notional,
                  position.entry_mark_price)
    /\ _load_state(store) = [position |-> position, raised |-> FALSE]

C2_IdleBelowThresholdNoop ==
    (IdleTick /\ Observed /\ lastOp.funding.v < funding_threshold)
    => /\ Calls = <<>>
       /\ ~lastOp.mark_read
       /\ ~position.held
       /\ store = lastOp.pre_store

C2_Witness ==
    IdleTick /\ Observed /\ lastOp.funding.v < funding_threshold /\ Completed

\* C3: a tick of check_and_trade started while the Engine holds a Position
\* never issues a spot buy or a derivative open_short, whatever it observes.
C3_NoEntryWhileOpen ==
    OpenTick => \A i \in 1..Len(Calls) : Calls[i].side \notin {"buy", "open_short"}

\* the third tick in a row finds the Position held and funding at or above
\* the threshold
C3_Witness ==
    /\ OpenTick /\ Observed /\ lastOp.funding.v >= funding_threshold
    /\ ticks >= 3 /\ position.held

EarlyExitTick == OpenTick /\ Observed /\ lastOp.funding.v < funding_threshold

\* the scenario of C4: threshold 0.0001, notional 50, entry mark price 50000:
\* the entry at funding 0.00015 orders 0.001000, the exit at 0.00005 too
ScenarioEntry ==
    (/\ EntryTick /\ Completed /\ funding_threshold = 100
     /\ lastOp.funding.v = 150 /\ target_usd_notional = 50
     /\ position.entry_mark_price = 50000)
    => Calls[1].quantity = <<1, 0, 0, 0>> /\ Calls[2].quantity = <<1, 0, 0, 0>>

ScenarioExit ==
    (/\ EarlyExitTick /\ funding_threshold = 100 /\ lastOp.funding.v = 50
     /\ Pre.usd_notional = 50 /\ Pre.entry_mark_price = 50000)
    => \A i \in 1..Len(Calls) : Calls[i].quantity = <<1, 0, 0, 0>>

\* C4 as stated: while Open, a tick that observes funding < fundingThreshold
\* issues one spot sell and one close_short whose quantities are those stored
\* in the Position at entry (the scenario included).
C4_Original ==
    /\ EarlyExitTick =>
          /\ Len(Calls) = 2
          /\ IsOrder(Calls[1], "spot", "sell")
          /\ ValueOf(Calls[1].quantity) = Pre.spot_qty
          /\ IsOrder(Calls[2], "mix", "close_short")
          /\ ValueOf(Calls[2].quantity) = Pre.perp_size
    /\ ScenarioEntry
    /\ ScenarioExit

\* C4 amended: such a tick issues one spot sell of the stored quantity and,
\* unless that sell fails on every variant, one close_short of the stored
\* quantity; it does not read the mark price (the scenario included).
C4_ExitUsesStoredQty ==
    /\ EarlyExitTick =>
          /\ Len(Calls) >= 1
          /\ IsOrder(Calls[1], "spot", "sell")
          /\ ValueOf(Calls[1].quantity) = Pre.spot_qty
          /\ ~lastOp.mark_read
          /\ IF Calls[1].ok
             THEN /\ Len(Calls) = 2
                  /\ IsOrder(Calls[2], "mix", "close_short")
                  /\ ValueOf(Calls[2].quantity) = Pre.perp_size
             ELSE Len(Calls) = 1
    /\ ScenarioEntry
    /\ ScenarioExit

\* the exit of the scenario, one tick after the entry
C4_Witness ==
    /\ EarlyExitTick /\ lastOp.funding.v = 50 /\ Pre.entry_mark_price = 50000
    /\ Pre.usd_notional = 50 /\ ticks = 2 /\ Len(Calls) = 2 /\ ~position.held

HoldTick == OpenTick /\ Observed /\ lastOp.funding.v >= funding_threshold

\* the tick took the exit path: its first order is the spot sell
ExitAttempted == Len(Calls) >= 1 /\ IsOrder(Calls[1], "spot", "sell")

\* C5 as stated: while Open, a tick at which the time since openedAt is >= the
\* holding window of 8 hours, the window itself included, closes the position
\* even when funding is still >= fundingThreshold.
C5_Original == (HoldTick /\ Elapsed >= HoldingWindowHours) => ExitAttempted

\* C5 amended: the exit fires when the time since openedAt is strictly greater
\* than the window (the spot sell is placed, and the Engine is Idle when the
\* tick returns without an exception); at exactly the window, with funding
\* >= fundingThreshold, the tick issues no order and the Position stays.
C5_ExitAfterWindow ==
    HoldTick =>
       /\ Elapsed > HoldingWindowHours
             => ExitAttempted /\ (Completed => ~position.held)
       /\ Elapsed = HoldingWindowHours
             => Calls = <<>> /\ position = Pre /\ store = lastOp.pre_store

C5_Witness ==
    HoldTick /\ Elapsed > HoldingWindowHours /\ Completed /\ ~position.held

\* an exit has completed: the tick found a Position and left none
CloseCompleted == OpenTick /\ ~position.held

\* C6: after a close completes the Engine is Idle and an Engine constructed
\* from the Store holds no Position.
C6_IdleAfterRestart ==
    CloseCompleted => ~position.held /\ ~_load_state(store).position.held

\* C7: for a given opened Position at most one spot sell and at most one
\* close_short are placed, over ticks, tick failures and restarts.
C7_ClosedOnce == exch.ep_sell <= 1 /\ exch.ep_close_short <= 1

----------------------------------------------------------------------------
(* The Store alone: an engine holding any Position saves it, stamps or     *)
(* discards it as _close_pair_trade does, and an engine is constructed     *)
(* from the file.                                                           *)

StorePositions ==
    {PositionState(SymbolSpot, SymbolPerp, usd, sq, ps, 50000, ots, cts) :
        usd \in {-1, 50}, sq \in {1000, 1667}, ps \in {10, 1000},
        ots \in {0, 12}, cts \in {NoneVal, Some(13)}}

\* every way a write can end, the process stopping after any number of lines
StoreSaveOutcomes(p) ==
    {SaveOk, [how |-> "open_fails", cut |-> 0]}
    \cup {[how |-> "crash", cut |-> c] : c \in 0..(Len(JsonDump(p)) - 1)}

SaveOpName(sr) ==
    IF sr.died THEN "save_crashed" ELSE IF sr.raised THEN "save_failed" ELSE "save"

StoreOp(op, raised) ==
    OpRecord(op, lastOp.op, position, store, Failure, 0,
             Outcome(NoPosition, NoFile, <<>>, FALSE, FALSE, raised, FALSE), NoReads)

InitStore ==
    /\ store = NoFile
    /\ position \in StorePositions \cup {NoPosition}
    /\ funding_threshold = DefaultFundingThreshold
    /\ target_usd_notional = DefaultUsdNotional
    /\ now = 0
    /\ alive = TRUE
    /\ pc = "store"
    /\ ticks = 0
    /\ restarts = 0
    /\ exch = NoOrders
    /\ lastOp = IdleOp("init", "none", FALSE)
    /\ call = NoCall

\* self._save_state()
StoreSave ==
    /\ alive /\ lastOp.op \in {"init", "mutate", "save_failed"}
    /\ \E sav \in StoreSaveOutcomes(position) :
         \E sr \in {_save_state(position, store, sav)} :
            /\ store' = sr.file
            /\ alive' = ~sr.died
            /\ lastOp' = StoreOp(SaveOpName(sr), sr.raised)
    /\ UNCHANGED <<position, funding_threshold, target_usd_notional, now, pc, ticks,
                   restarts, exch, call>>

\* self.position.closed_ts = self._now(), or self.position = None
StoreMutate ==
    /\ alive /\ position.held /\ lastOp.op \in {"save", "save_failed"}
    /\ \/ /\ ~position.closed_ts.some
          /\ position' = [position EXCEPT !.closed_ts = Some(20)]
       \/ position' = NoPosition
    /\ lastOp' = StoreOp("mutate", FALSE)
    /\ UNCHANGED <<store, funding_threshold, target_usd_notional, now, alive, pc,
                   ticks, restarts, exch, call>>

\* FundingArbStrategy.__init__: self._load_state()
StoreLoad ==
    /\ lastOp.op \in {"save", "save_failed", "save_crashed"}
    /\ \E ld \in {_load_state(store)} :
         /\ position' = ld.position
         /\ alive' = ~ld.raised
         /\ lastOp' = StoreOp("load", ld.raised)
    /\ UNCHANGED <<store, funding_threshold, target_usd_notional, now, pc, ticks,
                   restarts, exch, call>>

NextStore == StoreSave \/ StoreMutate \/ StoreLoad

SpecStore == InitStore /\ [][NextStore]_vars

\* C8: saving any Position, or the absent value, with _save_state and then
\* loading with _load_state yields a value equal to it field for field;
\* nothing is validated, so an inconsistent Position comes back unchanged.
C8_RoundTrip ==
    (lastOp.op = "load" /\ lastOp.prev = "save")
    => ~lastOp.raised /\ position = lastOp.pre_position

\* a closed Position whose legs differ has been saved and loaded
C8_Witness ==
    /\ lastOp.op = "load" /\ lastOp.prev = "save"
    /\ position.held /\ position.spot_qty # position.perp_size
    /\ position.closed_ts.some /\ position.usd_notional < 0

\* C9: if the process stops during _save_state, a load then yields the
\* previously saved record or the new one, never an unparsable file.
C9_SaveAtomic ==
    lastOp.op = "save_crashed"
    => /\ ~_load_state(store).raised
       /\ _load_state(store).position
             \in {lastOp.pre_position, _load_state(lastOp.pre_store).position}

----------------------------------------------------------------------------
(* The fallback chains alone: one call of each operation against every     *)
(* combination of answers of its variants.                                  *)

\* what an attempt of variant v may do
AttemptOutcomes(v) ==
    {Ok(OrderAck(v)), Ok(DataNull(v)), Err(HttpError(v, 400)), Err(HttpError(v, 500))}

Vectors2 == {<<a, b>> : a \in AttemptOutcomes(1), b \in AttemptOutcomes(2)}
Vectors3 ==
    {<<a, b, c>> : a \in AttemptOutcomes(1), b \in AttemptOutcomes(2),
                   c \in AttemptOutcomes(3)}
Vectors4 ==
    {<<a, b, c, d>> : a \in AttemptOutcomes(1), b \in AttemptOutcomes(2),
                      c \in AttemptOutcomes(3), d \in AttemptOutcomes(4)}

ApiCall(op, rs, result) == [op |-> op, rs |-> rs, result |-> result]

InitResolver ==
    /\ store = NoFile
    /\ position = NoPosition
    /\ funding_threshold = DefaultFundingThreshold
    /\ target_usd_notional = DefaultUsdNotional
    /\ now = 0
    /\ alive = TRUE
    /\ pc = "api"
    /\ ticks = 0
    /\ restarts = 0
    /\ exch = NoOrders
    /\ lastOp = IdleOp("init", "none", FALSE)
    /\ call = NoCall

ResolverFrame ==
    UNCHANGED <<position, store, funding_threshold, target_usd_notional, now, alive,
                pc, ticks, restarts, exch, lastOp>>

CallFundingRate ==
    /\ \E rs \in Vectors2 : call' = ApiCall("get_funding_rate", rs, get_funding_rate(rs))
    /\ ResolverFrame

CallMarkPrice ==
    /\ \E rs \in Vectors4 : call' = ApiCall("get_mark_price", rs, get_mark_price(rs))
    /\ ResolverFrame

CallSpotOrder ==
    /\ \E rs \in Vectors3 : call' = ApiCall("place_spot_order", rs, place_spot_order(rs))
    /\ ResolverFrame

CallMixOrder ==
    /\ \E rs \in Vectors2 : call' = ApiCall("place_mix_order", rs, place_mix_order(rs))
    /\ ResolverFrame

CallManualSpotOrder ==
    /\ \E rs \in Vectors3 :
          call' = ApiCall("manual_place_spot_order", rs, manual_place_spot_order(rs))
    /\ ResolverFrame

CallManualMixOrder ==
    /\ \E rs \in Vectors2 :
          call' = ApiCall("manual_place_mix_order", rs, manual_place_mix_order(rs))
    /\ ResolverFrame

NextResolver ==
    \/ CallFundingRate \/ CallMarkPrice \/ CallSpotOrder \/ CallMixOrder
    \/ CallManualSpotOrder \/ CallManualMixOrder

SpecResolver == InitResolver /\ [][NextResolver]_vars

\* the first variant of rs whose attempt succeeds
FirstOk(rs) == CHOOSE i \in 1..Len(rs) : rs[i].ok /\ \A j \in 1..(i - 1) : ~rs[j].ok

\* C10: one call tries the variants in their configured order, each at most
\* once, stops at the first that succeeds and returns its payload unmodified;
\* with variant 1 a client error and variant 2 a success the result is
\* variant 2's payload and variant 1 is attempted once.
C10_FallbackOrder ==
    call.op # "none" =>
       LET rs == call.rs
           att == call.result.attempts
       IN  /\ Len(att) <= Len(rs)
           /\ \A i \in 1..Len(att) : att[i] = i
           /\ IF \E i \in 1..Len(rs) : rs[i].ok
              THEN /\ Len(att) = FirstOk(rs)
                   /\ call.result.ok
                   /\ call.result.payload = rs[FirstOk(rs)].payload
              ELSE Len(att) = Len(rs) /\ ~call.result.ok
           /\ (rs[1] = Err(HttpError(1, 400)) /\ rs[2].ok)
                 => /\ call.result.payload = rs[2].payload
                    /\ att = <<1, 2>>

C10_Witness ==
    /\ call.op = "get_funding_rate"
    /\ call.rs[1] = Err(HttpError(1, 400)) /\ call.rs[2].ok
    /\ call.result.ok /\ call.result.payload = call.rs[2].payload
    /\ call.result.attempts = <<1, 2>>

\* every variant of the call failed
AllFailed(rs) == \A i \in 1..Len(rs) : ~rs[i].ok

\* C11: when every configured variant of an operation fails, the call fails
\* with an error that carries the error of the last variant attempted; for
\* the funding rate, the mark price, the spot order and the derivative order.
C11_LastError ==
    (call.op # "none" /\ AllFailed(call.rs))
    => ~call.result.ok /\ call.result.err = call.rs[Len(call.rs)].err

----------------------------------------------------------------------------
(* The normalizers alone: one call of each against every shape of payload. *)

\* the values a field of a response may hold
JsonValues == {Absent, Null, Num(0), Num(50000), NumStr(30000), BadStr, EmptyStr}

FundingMappings == {Mapping(fr, Absent, Absent, Absent) : fr \in JsonValues}
MarkMappings ==
    {Mapping(Absent, mp, cl, la) : mp \in JsonValues, cl \in JsonValues, la \in JsonValues}

\* the shapes of the body of variant v whose "data" is built from mapping m:
\* an object, a list starting with it, a list starting with a number
ShapesOf(v, m) ==
    {DataDict(v, m), DataList(v, <<DictElem(m)>>), DataList(v, <<DictElem(m), ScalarElem>>),
     DataList(v, <<ScalarElem, DictElem(m)>>)}

\* "data" missing or null, an empty list, a body that is not an object
OddShapes(v) == {DataNull(v), DataList(v, <<>>), Payload(v, FALSE, "null", <<>>)}

FundingPayloads(v) == OddShapes(v) \cup UNION {ShapesOf(v, m) : m \in FundingMappings}
MarkPayloads(v) == OddShapes(v) \cup UNION {ShapesOf(v, m) : m \in MarkMappings}

\* the payload arrives from the first variant, or from the last after the
\* others have failed
FundingAnswers ==
    {<<Ok(d), Ok(FundingDict(2, 150))>> : d \in FundingPayloads(1)}
    \cup {<<ClientError(1), Ok(d)>> : d \in FundingPayloads(2)}
    \cup {<<ClientError(1), ClientError(2)>>}

MarkAnswers ==
    {<<Ok(d), Ok(MarkDict(2, 40000)), Ok(MarkDict(3, 40000)), Ok(MarkDict(4, 40000))>> :
        d \in MarkPayloads(1)}
    \cup {<<ClientError(1), ClientError(2), ClientError(3), Ok(d)>> : d \in MarkPayloads(4)}
    \cup {MarkAllFail}

\* variant 2 answers with a body of any shape, variants 3 and 4 with a price
MarkRetries ==
    {<<ClientError(1), Ok(d), Ok(MarkDict(3, 40000)), Ok(MarkDict(4, 40000))>> :
        d \in OddShapes(2) \cup ShapesOf(2, EmptyMapping)
              \cup ShapesOf(2, Mapping(Absent, Null, Absent, NumStr(30000)))}

InitNormalizer ==
    /\ store = NoFile
    /\ position = NoPosition
    /\ funding_threshold = DefaultFundingThreshold
    /\ target_usd_notional = DefaultUsdNotional
    /\ now = 0
    /\ alive = TRUE
    /\ pc = "normalize"
    /\ ticks = 0
    /\ restarts = 0
    /\ exch = NoOrders
    /\ lastOp = IdleOp("init", "none", FALSE)
    /\ call = NoCall

NormalizeFunding ==
    /\ call = NoCall
    /\ \E rs \in FundingAnswers :
          call' = ApiCall("_get_current_funding", rs, _get_current_funding(rs))
    /\ ResolverFrame

NormalizeMark ==
    /\ call = NoCall
    /\ \E rs \in MarkAnswers : call' = ApiCall("_get_mark_price", rs, _get_mark_price(rs))
    /\ ResolverFrame

ManualFundingRate ==
    /\ call = NoCall
    /\ \E rs \in FundingAnswers :
          call' = ApiCall("manual_get_funding_rate", rs, manual_get_funding_rate(rs))
    /\ ResolverFrame

\* the mark-price read of the engine, with the variants it attempted
ReadMark ==
    /\ call = NoCall
    /\ \E rs \in MarkAnswers \cup MarkRetries :
          call' = ApiCall("EngineMarkRead", rs, EngineMarkRead(rs))
    /\ ResolverFrame

ManualMarkPrice ==
    /\ call = NoCall
    /\ \E rs \in MarkAnswers \cup MarkRetries :
          call' = ApiCall("manual_get_mark_price", rs, manual_get_mark_price(rs))
    /\ ResolverFrame

NextNormalizer ==
    \/ NormalizeFunding \/ NormalizeMark \/ ManualFundingRate
    \/ ReadMark \/ ManualMarkPrice

SpecNormalizer == InitNormalizer /\ [][NextNormalizer]_vars

\* the payload the normalizer of the last call was given
Answered == \E i \in 1..Len(call.rs) : call.rs[i].ok
Given == call.rs[FirstOk(call.rs)].payload

\* "data" is a mapping, or a non-empty list whose first element is a mapping
HasRecord(d) ==
    d.isdict /\ (d.kind = "dict" \/ (d.kind = "list" /\ Len(d.elems) > 0 /\ d.elems[1].isdict))
Record(d) == d.elems[1].map

\* present and non-null
Present(x) == x.t \notin {"absent", "null"}

\* the first of markPrice, close, last that is present and non-null
FirstPresent(m) ==
    IF Present(m.markPrice) THEN m.markPrice
    ELSE IF Present(m.close) THEN m.close
    ELSE m.last

\* C12: for a payload whose data is a mapping, or a non-empty list whose first
\* element is a mapping, the mark price is the value of the first of
\* markPrice, close, last that is present and non-null, a numeric zero or an
\* empty string included (no later field is read in its place); a
\* one-element list carrying only last yields that value; when none of the
\* three is present and non-null the call fails with a shape error.
C12_MarkNormalization ==
    (call.op = "_get_mark_price" /\ Answered /\ HasRecord(Given))
    => LET x == FirstPresent(Record(Given))
       IN  IF ~Present(x) THEN call.result = ShapeError(Given)
           ELSE IF FloatOk(x) THEN call.result = Value(x.v)
           ELSE ~call.result.ok

\* the payload holds a funding rate: data is a mapping with the key
\* fundingRate, or a non-empty list whose first element is such a mapping
HasFundingRate(d) == HasRecord(d) /\ HasField(Record(d).fundingRate)

\* C13: if data is a mapping containing fundingRate, or a non-empty list
\* whose first element is one, the result is that value as a number; for
\* every other payload (data missing, an empty list, a first element that is
\* not a mapping or lacks the key, a body that is not a mapping, a value that
\* is not numeric) the call returns no value and fails with an error that
\* carries the raw payload.  For _get_current_funding of strategy.py and
\* get_funding_rate of mannual.py.
C13_FundingNormalization ==
    (call.op \in {"_get_current_funding", "manual_get_funding_rate"} /\ Answered)
    => IF HasFundingRate(Given) /\ FloatOk(Record(Given).fundingRate)
       THEN call.result = Value(Record(Given).fundingRate.v)
       ELSE call.result = ShapeError(Given)

\* the same, of the engine's normalizer alone
EngineFundingNormalization ==
    call.op = "manual_get_funding_rate" \/ C13_FundingNormalization

----------------------------------------------------------------------------
(* Symbol decomposition: BitgetAPI._derive_mix_params and derive_mix_params *)
(* of mannual.py.  A symbol is the sequence of its characters.              *)

\* str.upper(), on the letters the symbols below are built from
UpperChar(c) ==
    CASE c = "c" -> "C" [] c = "d" -> "D" [] c = "m" -> "M" [] c = "u" -> "U"
      [] OTHER -> c
Upper(s) == [i \in 1..Len(s) |-> UpperChar(s[i])]

\* str.startswith
StartsWith(s, prefix) == Len(s) >= Len(prefix) /\ SubSeq(s, 1, Len(prefix)) = prefix

\* "_" in s
HasUnderscore(s) == \E i \in 1..Len(s) : s[i] = "_"

\* s.split("_", 1): the text before the first "_" and the text after it
Split1(s) ==
    LET i == CHOOSE k \in 1..Len(s) : s[k] = "_" /\ \A j \in 1..(k - 1) : s[j] # "_"
    IN  <<SubSeq(s, 1, i - 1), SubSeq(s, i + 1, Len(s))>>

MixParams(core, product_type) == [symbol |-> core, productType |-> product_type]

\* fault: the suffix is compared as written, without upper()
_derive_mix_params_cased(symbol_perp) ==
    IF ~HasUnderscore(symbol_perp) THEN MixParams(symbol_perp, "USDT-FUTURES")
    ELSE LET p == Split1(symbol_perp)
             core == IF p[1] # <<>> THEN p[1] ELSE symbol_perp
             suf == p[2]
         IN  IF StartsWith(suf, <<"U", "M", "C">>) THEN MixParams(core, "USDT-FUTURES")
             ELSE IF StartsWith(suf, <<"C", "M", "C">>) \/ StartsWith(suf, <<"D", "M", "C">>)
             THEN MixParams(core, "COIN-FUTURES")
             ELSE MixParams(core, "USDT-FUTURES")

_derive_mix_params(symbol_perp) ==
    IF ~HasUnderscore(symbol_perp) THEN MixParams(symbol_perp, "USDT-FUTURES")
    ELSE LET p == Split1(symbol_perp)
             core == IF p[1] # <<>> THEN p[1] ELSE symbol_perp
             suf == Upper(p[2])
         IN  IF StartsWith(suf, <<"U", "M", "C">>) THEN MixParams(core, "USDT-FUTURES")
             ELSE IF StartsWith(suf, <<"C", "M", "C">>) \/ StartsWith(suf, <<"D", "M", "C">>)
             THEN MixParams(core, "COIN-FUTURES")
             ELSE MixParams(core, "USDT-FUTURES")

\* mannual.py: the same function at module level
derive_mix_params(symbol_perp) ==
    IF ~HasUnderscore(symbol_perp) THEN MixParams(symbol_perp, "USDT-FUTURES")
    ELSE LET parts == Split1(symbol_perp)
             core == IF parts[1] # <<>> THEN parts[1] ELSE symbol_perp
             suf == Upper(parts[2])
         IN  IF StartsWith(suf, <<"U", "M", "C">>) THEN MixParams(core, "USDT-FUTURES")
             ELSE IF StartsWith(suf, <<"C", "M", "C">>) \/ StartsWith(suf, <<"D", "M", "C">>)
             THEN MixParams(core, "COIN-FUTURES")
             ELSE MixParams(core, "USDT-FUTURES")

BTCUSDT == <<"B", "T", "C", "U", "S", "D", "T">>
UMCBL == <<"U", "M", "C", "B", "L">>
DMCBL == <<"D", "M", "C", "B", "L">>
CMCBL == <<"C", "M", "C", "B", "L">>

\* the characters suffixes are built from, and every text of up to 3 of them
SuffixChars == {"U", "C", "D", "M", "c", "d", "m", "B", "_"}
Texts ==
    {<<>>} \cup {<<a>> : a \in SuffixChars}
    \cup {<<a, b>> : a \in SuffixChars, b \in SuffixChars}
    \cup {<<a, b, c>> : a \in SuffixChars, b \in SuffixChars, c \in SuffixChars}
Tails == Texts \cup {UMCBL, DMCBL, CMCBL, <<"d", "m", "c", "b", "l">>, <<"X", "D", "M", "C">>}
Heads == {<<>>, BTCUSDT, <<"D", "M", "C">>}

\* symbols without an underscore, with one, with several, with an empty head
Symbols == {h \o t : h \in Heads, t \in Tails} \cup {h \o <<"_">> \o t : h \in Heads, t \in Tails}

InitSymbols ==
    /\ store = NoFile
    /\ position = NoPosition
    /\ funding_threshold = DefaultFundingThreshold
    /\ target_usd_notional = DefaultUsdNotional
    /\ now = 0
    /\ alive = TRUE
    /\ pc = "symbols"
    /\ ticks = 0
    /\ restarts = 0
    /\ exch = NoOrders
    /\ lastOp = IdleOp("init", "none", FALSE)
    /\ call = NoCall

DeriveMixParams ==
    /\ call = NoCall
    /\ \E s \in Symbols : call' = ApiCall("_derive_mix_params", s, _derive_mix_params(s))
    /\ ResolverFrame

ManualDeriveMixParams ==
    /\ call = NoCall
    /\ \E s \in Symbols : call' = ApiCall("derive_mix_params", s, derive_mix_params(s))
    /\ ResolverFrame

NextSymbols == DeriveMixParams \/ ManualDeriveMixParams

SpecSymbols == InitSymbols /\ [][NextSymbols]_vars

\* position of the first underscore of s, 0 when it has none
FirstUnderscore(s) ==
    IF \E i \in 1..Len(s) : s[i] = "_"
    THEN CHOOSE i \in 1..Len(s) : s[i] = "_" /\ \A j \in 1..(i - 1) : s[j] # "_"
    ELSE 0

\* the text before the first underscore, the whole symbol when there is no
\* underscore or when that text is empty
BarePair(s) == IF FirstUnderscore(s) <= 1 THEN s ELSE SubSeq(s, 1, FirstUnderscore(s) - 1)

\* the upper-cased text after the first underscore
UpperSuffix(s) ==
    IF FirstUnderscore(s) = 0 THEN <<>> ELSE Upper(SubSeq(s, FirstUnderscore(s) + 1, Len(s)))

Classification(s) ==
    IF /\ Len(UpperSuffix(s)) >= 3
       /\ UpperSuffix(s)[1] \in {"C", "D"}
       /\ UpperSuffix(s)[2] = "M"
       /\ UpperSuffix(s)[3] = "C"
    THEN "COIN-FUTURES" ELSE "USDT-FUTURES"

\* C14: the bare pair is the text before the first underscore (the whole
\* symbol when there is no underscore or that text is empty); the
\* classification is COIN-FUTURES when the upper-cased suffix starts with CMC
\* or DMC and USDT-FUTURES otherwise; BTCUSDT_UMCBL gives (BTCUSDT,
\* USDT-FUTURES) and BTCUSDT_DMCBL gives (BTCUSDT, COIN-FUTURES).
C14_SymbolDecomposition ==
    call.op \in {"_derive_mix_params", "derive_mix_params"}
    => /\ call.result.symbol = BarePair(call.rs)
       /\ call.result.productType = Classification(call.rs)
       /\ call.rs = BTCUSDT \o <<"_">> \o UMCBL
             => call.result = MixParams(BTCUSDT, "USDT-FUTURES")
       /\ call.rs = BTCUSDT \o <<"_">> \o DMCBL
             => call.result = MixParams(BTCUSDT, "COIN-FUTURES")

\* a lower-case coin-margined suffix has been classified
C14_Witness ==
    /\ call.op = "_derive_mix_params"
    /\ call.rs = BTCUSDT \o <<"_", "d", "m", "c">>
    /\ call.result = MixParams(BTCUSDT, "COIN-FUTURES")

----------------------------------------------------------------------------
(* Properties of the driver loop, checked under SpecLoop *)

\* the tick raised (an endpoint unavailable, an unrecognized response, an
\* order rejected, a write of the Store refused) and the process was not stopped
FailedTick == TickDone /\ lastOp.raised /\ ~lastOp.died

\* C15: every failure raised inside a tick is caught at the tick boundary and
\* the process does not terminate; the failed tick is not re-run before the
\* delay has elapsed (a tick never directly follows a tick, time has passed
\* in between) and the next tick is then started (unless the process is
\* stopped and started again meanwhile); ticks are serialized.
C15_DriverLoop ==
    /\ [](FailedTick => alive /\ pc = "sleep")
    /\ [](TickDone => lastOp.prev \in {"init", "sleep", "restart"})
    /\ []((lastOp.op = "sleep" /\ lastOp.prev = "tick") => alive /\ pc = "tick")
    /\ \A k \in 1..(MaxTicks - 1) :
          (FailedTick /\ ticks = k)
             ~> ((TickDone /\ ticks = k + 1) \/ lastOp.op = "restart")

\* a tick whose write of the Store was refused has been survived
C15_Witness ==
    /\ FailedTick /\ position.held /\ ~store.exists
    /\ alive /\ pc = "sleep"

----------------------------------------------------------------------------
(* Properties of the engine over an unreadable Store *)

\* state.json exists but is not JSON text, or its record does not have the
\* fields of a PositionState
Unreadable(file) ==
    /\ file.exists
    /\ \/ ~WellFormed(file.text)
       \/ Len(RawPosition(file.text)) > 0 /\ ~KwargsOk(RawPosition(file.text))

EntryOrders == {i \in 1..Len(Calls) : Calls[i].side \in {"buy", "open_short"}}

\* C16: when the Store's record exists but cannot be read or parsed, the
\* Engine never proceeds as if it were Idle: constructing the Engine fails
\* with the error (the process ends, no tick follows), a live Engine over an
\* unreadable record holds a Position, and no tick that starts Idle over an
\* unreadable record issues a spot buy or an open_short.
C16_UnreadableStoreSurfaced ==
    /\ (lastOp.op = "restart" /\ Unreadable(store)) => lastOp.raised /\ ~alive
    /\ (alive /\ Unreadable(store)) => position.held
    /\ (IdleTick /\ Unreadable(lastOp.pre_store)) => EntryOrders = {}

\* the process stopped while it wrote the Store and was started again
C16_Witness ==
    /\ lastOp.op = "restart" /\ Unreadable(store)
    /\ lastOp.raised /\ ~alive /\ exch.buy = 1 /\ exch.sell = 0

----------------------------------------------------------------------------
(* A deployment: main() started with any USD_NOTIONAL, in a working        *)
(* directory that may hold a state.json left there before.                 *)

\* USD_NOTIONAL is read with float() and used as it is
ConfiguredNotionals == {-50, 0, DefaultUsdNotional}

\* records of an open Position found in state.json: as an entry writes
\* them, and with legs that differ
RestoredPositions ==
    {PositionState(SymbolSpot, SymbolPerp, DefaultUsdNotional, 1000, ps, 50000, 0, NoneVal) :
        ps \in {1000, 2000}}

InitDeployed ==
    /\ store \in {NoFile} \cup {File(JsonDump(p)) : p \in RestoredPositions}
    /\ position = _load_state(store).position
    /\ funding_threshold = DefaultFundingThreshold
    /\ target_usd_notional \in ConfiguredNotionals
    /\ now = 0
    /\ alive = TRUE
    /\ pc = "tick"
    /\ ticks = 0
    /\ restarts = 0
    /\ exch = NoOrders
    /\ lastOp = IdleOp("init", "none", FALSE)
    /\ call = NoCall

SpecDeployed == InitDeployed /\ [][Next]_vars

\* the record of the Position an exit has stamped and saved
Stamped == _load_state(store).position

\* C17: every Position created on entry has spotQuantity = derivativeQuantity
\* and usdNotional > 0, for every configured target notional and every mark
\* price the Normalizer can return; every Position stamped on exit has
\* closedAt >= openedAt.
C17_PositionInvariants ==
    /\ (TickDone /\ lastOp.created)
          => position.spot_qty = position.perp_size /\ position.usd_notional > 0
    /\ (CloseCompleted /\ Stamped.held /\ Stamped.closed_ts.some)
          => Stamped.closed_ts.v >= Stamped.opened_ts

----------------------------------------------------------------------------
(* Properties of the two legs *)

\* the tick took the entry path as far as the orders
EntryOrdered == IdleTick /\ Len(Calls) >= 1

\* the spot buy was accepted and the derivative order failed on every variant
SecondLegFailed == EntryOrdered /\ Len(Calls) = 2 /\ Calls[1].ok /\ ~Calls[2].ok

\* C18: in an entry tick the spot buy is submitted before the open_short; if
\* the spot buy fails on all variants the derivative order is never submitted
\* and no Position is recorded in memory or in the Store; if the spot buy
\* succeeds and the derivative order fails on all variants, no compensating
\* spot sell is issued, no Position is recorded in memory or in the Store,
\* and the Engine is still Idle when the next tick starts.
C18_EntryLegOrder ==
    /\ [](EntryOrdered =>
            /\ IsOrder(Calls[1], "spot", "buy")
            /\ Len(Calls) <= 2
            /\ Len(Calls) = 2 => Calls[1].ok /\ IsOrder(Calls[2], "mix", "open_short")
            /\ ~Calls[1].ok =>
                  Len(Calls) = 1 /\ ~position.held /\ store = lastOp.pre_store
            /\ SecondLegFailed =>
                  /\ \A i \in 1..Len(Calls) : Calls[i].side # "sell"
                  /\ ~position.held /\ store = lastOp.pre_store)
    /\ [][(SecondLegFailed /\ lastOp'.op = "sleep") => (~position'.held /\ pc' = "tick")]_vars

\* the second leg has failed after the first was accepted, and the loop
\* stands at the next tick
C18_Witness ==
    /\ lastOp.op = "sleep" /\ lastOp.prev = "tick" /\ pc = "tick"
    /\ exch.buy = 1 /\ exch.open_short = 0 /\ exch.sell = 0 /\ ~position.held

\* the legs the exchange holds for the account: accepted buys minus sells,
\* accepted open_shorts minus close_shorts
SpotLeg == exch.buy - exch.sell
ShortLeg == exch.open_short - exch.close_short

\* C19: at every tick boundary, over any sequence of ticks in which any
\* network call may fail, the spot buys minus spot sells placed equal the
\* open_shorts minus close_shorts placed, and that number is 1 when the
\* Engine holds a Position and 0 when it is Idle.
C19_LegsPaired ==
    alive => /\ SpotLeg = ShortLeg
             /\ SpotLeg = (IF position.held THEN 1 ELSE 0)

\* C20: on exit the spot sell carries the Position's spotQuantity and the
\* close_short carries the Position's derivativeQuantity, also for a Position
\* restored from the Store whose two quantities differ.
C20_ExitLegSizes ==
    (OpenTick /\ ExitAttempted)
    => /\ ValueOf(Calls[1].quantity) = Pre.spot_qty
       /\ Len(Calls) = 2 =>
             IsOrder(Calls[2], "mix", "close_short")
             /\ ValueOf(Calls[2].quantity) = Pre.perp_size

\* the body holds no price in a recognized place: data is neither a mapping
\* nor a list that starts with one, or none of markPrice, close, last is
\* present and non-null
NoMarkShape(d) == ~HasRecord(d) \/ ~Present(FirstPresent(Record(d)))

\* C21: a variant that succeeds at the transport level but whose payload
\* matches no recognized shape ends the mark-price read with a shape error,
\* and no further variant is tried; for the Engine's _get_mark_price over
\* BitgetAPI.get_mark_price and for get_mark_price of mannual.py.
C21_ShapeErrorIsFatal ==
    (/\ call.op \in {"EngineMarkRead", "manual_get_mark_price"}
     /\ Answered /\ NoMarkShape(Given))
    => /\ call.result.result = ShapeError(Given)
       /\ Len(call.result.attempts) = FirstOk(call.rs)

\* the same, of the engine's read alone
EngineShapeErrorIsFatal == call.op = "manual_get_mark_price" \/ C21_ShapeErrorIsFatal

----------------------------------------------------------------------------
(* Building requests: the bodies of place_spot_order and the headers and    *)
(* signing input of _request (streamlit_app.py) and request (mannual.py).   *)

\* str.lower() and str.upper() on the words used below
LowerWord(w) ==
    CASE w = "BUY" -> "buy" [] w = "SELL" -> "sell" [] w = "MARKET" -> "market"
      [] w = "LIMIT" -> "limit" [] OTHER -> w
UpperWord(w) ==
    CASE w = "get" -> "GET" [] w = "post" -> "POST" [] w = "delete" -> "DELETE"
      [] OTHER -> w

\* an optional string argument: None, or the string (possibly empty)
NoString == [some |-> FALSE, s |-> ""]
String(x) == [some |-> TRUE, s |-> x]
\* truthiness of an optional string: not None and not ""
NonEmpty(x) == x.some /\ x.s # ""

SPBL == <<"_", "S", "P", "B", "L">>

\* one JSON body of a spot order; size_key is the name the quantity goes under
SpotBody(path, symbol, side, order_type, size_key, quantity, quote) ==
    [path |-> path, symbol |-> symbol, side |-> side, orderType |-> order_type,
     force |-> "gtc", size_key |-> size_key, quantity |-> quantity,
     quoteOrderQty |-> quote]

\* fault: the quote amount is attached whatever the side
spot_order_bodies_any_side(symbol_spot, side, quantity, order_type, quote_amount) ==
    LET symbol_v2 == IF HasUnderscore(symbol_spot) THEN Split1(symbol_spot)[1] ELSE symbol_spot
        symbol_v1 == IF HasUnderscore(symbol_spot) THEN symbol_spot ELSE symbol_spot \o SPBL
        attach == LowerWord(order_type) = "market" /\ NonEmpty(quote_amount)
    IN  <<SpotBody("/api/v2/spot/trade/place-order", symbol_v2, side, order_type, "size",
                   quantity, IF attach THEN quote_amount ELSE NoString),
          SpotBody("/api/spot/v1/trade/place-order", symbol_v1, side, order_type, "size",
                   quantity, NoString),
          SpotBody("/api/spot/v1/trade/orders", symbol_v1, side, order_type, "quantity",
                   quantity, NoString)>>

\* BitgetAPI.place_spot_order: the list `endpoints`, built before any request
spot_order_bodies(symbol_spot, side, quantity, order_type, quote_amount) ==
    LET symbol_v2 == IF HasUnderscore(symbol_spot) THEN Split1(symbol_spot)[1] ELSE symbol_spot
        symbol_v1 == IF HasUnderscore(symbol_spot) THEN symbol_spot ELSE symbol_spot \o SPBL
        attach == /\ LowerWord(order_type) = "market"
                  /\ LowerWord(side) = "buy"
                  /\ NonEmpty(quote_amount)
    IN  <<SpotBody("/api/v2/spot/trade/place-order", symbol_v2, side, order_type, "size",
                   quantity, IF attach THEN quote_amount ELSE NoString),
          SpotBody("/api/spot/v1/trade/place-order", symbol_v1, side, order_type, "size",
                   quantity, NoString),
          SpotBody("/api/spot/v1/trade/orders", symbol_v1, side, order_type, "quantity",
                   quantity, NoString)>>

\* mannual.py, place_spot_order: the same list, the argument is quote_usdt
manual_spot_order_bodies(symbol_spot, side, order_type, size, quote_usdt) ==
    LET symbol_v2 == IF HasUnderscore(symbol_spot) THEN Split1(symbol_spot)[1] ELSE symbol_spot
        symbol_v1 == IF HasUnderscore(symbol_spot) THEN symbol_spot ELSE symbol_spot \o SPBL
        attach == /\ LowerWord(order_type) = "market"
                  /\ LowerWord(side) = "buy"
                  /\ NonEmpty(quote_usdt)
    IN  <<SpotBody("/api/v2/spot/trade/place-order", symbol_v2, side, order_type, "size",
                   size, IF attach THEN quote_usdt ELSE NoString),
          SpotBody("/api/spot/v1/trade/place-order", symbol_v1, side, order_type, "size",
                   size, NoString),
          SpotBody("/api/spot/v1/trade/orders", symbol_v1, side, order_type, "quantity",
                   size, NoString)>>

\* the four signature headers
AuthHeaders == {"ACCESS-KEY", "ACCESS-SIGN", "ACCESS-TIMESTAMP", "ACCESS-PASSPHRASE"}

\* json.dumps(body) of a non-empty body; "" otherwise
Dumps(body) == IF body \in {"none", "empty"} THEN "" ELSE body

\* the signing input f"{ts}{METHOD}{request_path}{body_str}", part by part
Prehash(ts, method, path, query, body_str) ==
    [ts |-> ts, method |-> method, path |-> path, query |-> query, body_str |-> body_str]
NoPrehash == Prehash(0, "", "", "", "")

\* a request as built: its headers, what was signed, and whether a method
\* the function does not support made it raise ValueError instead of sending
Request(method, headers, signed, body_str, raised) ==
    [method |-> method, headers |-> headers, signed |-> signed, data |-> body_str,
     raised |-> raised]

\* fault: the body is part of the signing input whatever the method
_request_signs_body(method, path, params, body, auth, ts) ==
    LET body_str == Dumps(body)
        query == IF params \in {"none", "empty"} THEN "" ELSE params
    IN  Request(method,
                IF auth THEN {"Content-Type"} \cup AuthHeaders ELSE {"Content-Type"},
                IF auth THEN Prehash(ts, UpperWord(method), path, query, body_str)
                ELSE NoPrehash,
                body_str,
                UpperWord(method) \notin {"GET", "POST"})

\* BitgetAPI._request up to the point where the request is sent
_request(method, path, params, body, auth, ts) ==
    LET body_str == IF UpperWord(method) # "GET" THEN Dumps(body) ELSE ""
        query == IF params \in {"none", "empty"} THEN "" ELSE params
    IN  Request(method,
                IF auth THEN {"Content-Type"} \cup AuthHeaders ELSE {"Content-Type"},
                IF auth THEN Prehash(ts, UpperWord(method), path, query, body_str)
                ELSE NoPrehash,
                body_str,
                UpperWord(method) \notin {"GET", "POST"})

\* mannual.py, request: the same, DELETE is supported too
request(method, path, params, body, auth, ts) ==
    LET body_str == IF UpperWord(method) # "GET" THEN Dumps(body) ELSE ""
        query == IF params \in {"none", "empty"} THEN "" ELSE params
    IN  Request(method,
                IF auth THEN {"Content-Type"} \cup AuthHeaders ELSE {"Content-Type"},
                IF auth THEN Prehash(ts, UpperWord(method), path, query, body_str)
                ELSE NoPrehash,
                body_str,
                UpperWord(method) \notin {"GET", "POST", "DELETE"})

\* what the callers pass
Sides == {"buy", "sell", "BUY"}
OrderTypes == {"market", "limit", "MARKET"}
QuoteAmounts == {NoString, String(""), String("50.00")}
SpotSymbols == {BTCUSDT, BTCUSDT \o SPBL}
Methods == {"GET", "get", "POST", "DELETE"}
Arguments == {"none", "empty", "some"}
Timestamps == {1000, 2000}

InitRequests ==
    InitResolver

\* streamlit_app.py: place_spot_order builds its bodies
BuildSpotBodies ==
    /\ call = NoCall
    /\ \E s \in SpotSymbols, side \in Sides, ot \in OrderTypes, q \in QuoteAmounts :
         call' = ApiCall("spot_order_bodies",
                         <<s, side, ot, q>>,
                         spot_order_bodies(s, side, <<1, 6, 6, 6>>, ot, q))
    /\ ResolverFrame

\* mannual.py: place_spot_order builds its bodies
ManualBuildSpotBodies ==
    /\ call = NoCall
    /\ \E s \in SpotSymbols, side \in Sides, ot \in OrderTypes, q \in QuoteAmounts :
         call' = ApiCall("manual_spot_order_bodies",
                         <<s, side, ot, q>>,
                         manual_spot_order_bodies(s, side, ot, <<1, 6, 6, 6>>, q))
    /\ ResolverFrame

\* streamlit_app.py: _request builds one request
BuildRequest ==
    /\ call = NoCall
    /\ \E m \in Methods, params \in Arguments, body \in Arguments,
          auth \in BOOLEAN, ts \in Timestamps :
         call' = ApiCall("_request",
                         <<m, params, body, auth, ts>>,
                         _request(m, "/api/v2/spot/trade/place-order", params, body, auth, ts))
    /\ ResolverFrame

\* mannual.py: request builds one request
ManualBuildRequest ==
    /\ call = NoCall
    /\ \E m \in Methods, params \in Arguments, body \in Arguments,
          auth \in BOOLEAN, ts \in Timestamps :
         call' = ApiCall("request",
                         <<m, params, body, auth, ts>>,
                         request(m, "/api/v2/spot/trade/place-order", params, body, auth, ts))
    /\ ResolverFrame

NextRequests ==
    \/ BuildSpotBodies
    \/ ManualBuildSpotBodies
    \/ BuildRequest
    \/ ManualBuildRequest

SpecRequests == InitRequests /\ [][NextRequests]_vars

\* the call built the bodies of a spot order
BuiltBodies == call.op \in {"spot_order_bodies", "manual_spot_order_bodies"}
\* the order is a market buy with a non-empty quote amount
QuotedMarketBuy ==
    /\ LowerWord(call.rs[2]) = "buy"
    /\ LowerWord(call.rs[3]) = "market"
    /\ call.rs[4].some
    /\ call.rs[4].s # ""

\* C22: of the bodies a spot order is tried with, the newest variant's
\* carries the quote amount exactly when the order is a market buy with a
\* non-empty quote amount, and then it carries that amount; the bodies of
\* the two older variants never carry one.
C22_QuoteAmountAttachment ==
    BuiltBodies =>
        /\ Len(call.result) = 3
        /\ call.result[1].path = "/api/v2/spot/trade/place-order"
        /\ call.result[1].quoteOrderQty.some <=> QuotedMarketBuy
        /\ QuotedMarketBuy => call.result[1].quoteOrderQty = call.rs[4]
        /\ ~call.result[2].quoteOrderQty.some
        /\ ~call.result[3].quoteOrderQty.some

C22_Witness ==
    /\ BuiltBodies
    /\ QuotedMarketBuy
    /\ call.result[1].quoteOrderQty = String("50.00")

\* the call built a request
BuiltRequest == call.op \in {"_request", "request"}

\* C24: a request built with authentication off carries none of the four
\* signature headers, one built with authentication on carries all four,
\* and the body part of what a GET request signs is the empty string
\* whatever body was passed.
C24_SigningHeaders ==
    BuiltRequest =>
        /\ ~call.rs[4] => call.result.headers \cap AuthHeaders = {}
        /\ call.rs[4] => AuthHeaders \subseteq call.result.headers
        /\ (call.rs[4] /\ UpperWord(call.rs[1]) = "GET") =>
               call.result.signed.body_str = ""

C24_Witness ==
    /\ BuiltRequest
    /\ call.rs[4]
    /\ call.rs[1] = "GET"
    /\ call.rs[3] = "some"
    /\ call.result.signed.body_str = ""
    /\ AuthHeaders \subseteq call.result.headers

----------------------------------------------------------------------------
(* The held Position between entry and exit *)

\* p and q agree on every field of PositionState but closed_ts
SameButClosedTs(p, q) ==
    /\ p.symbol_spot = q.symbol_spot
    /\ p.symbol_perp = q.symbol_perp
    /\ p.usd_notional = q.usd_notional
    /\ p.spot_qty = q.spot_qty
    /\ p.perp_size = q.perp_size
    /\ p.entry_mark_price = q.entry_mark_price
    /\ p.opened_ts = q.opened_ts

\* a tick while Open in which neither exit test of check_and_trade fires
QuietHoldTick == HoldTick /\ Elapsed <= HoldingWindowHours

\* C23: while Open, a tick with funding >= fundingThreshold and the elapsed
\* time within the holding window issues no order, changes no field of the
\* held Position and does not write the Store; and as long as the running
\* engine holds a Position, from the step that created it to the step that
\* discards it, every field of it other than closed_ts stays what it was.
C23_HoldIsNoop ==
    /\ [](QuietHoldTick =>
            /\ Calls = <<>>
            /\ lastOp.funding_attempts >= 1 /\ ~lastOp.mark_read
            /\ position = Pre
            /\ store = lastOp.pre_store)
    /\ [][(position.held /\ position'.held /\ lastOp'.op # "restart")
             => SameButClosedTs(position, position')]_vars

\* a quiet tick at funding equal to the threshold, four hours after entry
C23_Witness ==
    /\ QuietHoldTick
    /\ lastOp.funding.v = funding_threshold
    /\ Elapsed = 4
    /\ position.held /\ position.closed_ts = NoneVal

----------------------------------------------------------------------------
(* The dashboard: main() of streamlit_app.py with strategy.py importable.  *)
(* Every click reruns the script: a FundingArbStrategy is constructed,     *)
(* which loads state.json, and the handler of the clicked button runs      *)
(* inside try/except.                                                      *)

\* the script run of one click: op names the button, out is what its
\* handler left behind, funding and reads are the market data it read
Click(op, loaded, funding, out, reads) ==
    /\ position' = out.position
    /\ store' = out.file
    /\ alive' = ~out.died
    /\ exch' = Account(exch, out)
    /\ lastOp' = OpRecord(op, lastOp.op, loaded, store, funding, now, out, reads)
    /\ pc' = "sleep"
    /\ ticks' = ticks + 1
    /\ UNCHANGED <<funding_threshold, target_usd_notional, now, restarts, call>>

\* the script can handle a click: the process runs and the constructor of
\* FundingArbStrategy did not raise on state.json
Clickable ==
    /\ alive /\ pc = "tick" /\ ticks < MaxTicks
    /\ ~_load_state(store).raised

\* "Check & Trade Once": strategy.check_and_trade()
CheckAndTradeOnce ==
    /\ Clickable
    /\ LET loaded == _load_state(store).position IN
       \E fv \in FundingVectors :
         \E i \in InputsFor(loaded, store, funding_threshold, target_usd_notional,
                            now, fv) :
            LET out == check_and_trade(loaded, store, funding_threshold,
                                       target_usd_notional, now, fv,
                                       i.mv, i.sv, i.pv, i.sav)
            IN  Click("check_and_trade_once", loaded, _get_current_funding(fv), out,
                      ReadsOf(out, fv, i.mv))

\* "Open Pair Now": strategy._open_pair_trade()
OpenPairNow ==
    /\ Clickable
    /\ LET loaded == _load_state(store).position IN
       \E i \in EntryInputs :
            LET out == _open_pair_trade(loaded, store, target_usd_notional, now,
                                        i.mv, i.sv, i.pv, i.sav)
            IN  Click("open_pair_now", loaded, Failure, out,
                      Reads(0, _get_mark_price(i.mv), Len(get_mark_price(i.mv).attempts)))

\* "Close Pair Now": strategy._close_pair_trade()
ClosePairNow ==
    /\ Clickable
    /\ LET loaded == _load_state(store).position IN
       \E i \in (IF loaded.held THEN ExitInputs ELSE {NoInputs}) :
            LET out == _close_pair_trade(loaded, store, now, i.sv, i.pv, i.sav)
            IN  Click("close_pair_now", loaded, Failure, out, NoReads)

\* time passes until the next click
BetweenClicks ==
    /\ alive /\ pc = "sleep"
    /\ \E d \in SleepHours : now' = now + d
    /\ pc' = "tick"
    /\ lastOp' = IdleOp("wait", lastOp.op, FALSE)
    /\ UNCHANGED <<position, store, funding_threshold, target_usd_notional, alive,
                   ticks, restarts, exch, call>>

NextDashboard ==
    \/ CheckAndTradeOnce
    \/ OpenPairNow
    \/ ClosePairNow
    \/ BetweenClicks

SpecDashboard == Init /\ [][NextDashboard]_vars

\* C25: the entry operation invoked from the control surface ("Open Pair
\* Now") while a Position is held places no second pair of entry orders and
\* leaves the held Position and its Store record as they were.
C25_NoSecondEntry ==
    (lastOp.op = "open_pair_now" /\ Pre.held) =>
        /\ EntryOrders = {}
        /\ position = Pre
        /\ store = lastOp.pre_store

----------------------------------------------------------------------------
(* Ticks that fail before an order is placed *)

\* the funding-rate read of the tick failed: on all variants, or on a
\* payload of no recognized shape
FundingReadFailed == TickDone /\ ~lastOp.funding.ok
\* the tick took the entry path and its mark-price read failed
MarkReadFailed == TickDone /\ lastOp.mark_read /\ ~lastOp.mark.ok

\* C26: a tick whose funding-rate read fails (on all variants, or on a
\* payload of no recognized shape), or whose mark-price read fails on the
\* entry path, raises, issues no order, and leaves the Position in memory
\* and the Store record exactly as they were before the tick.
C26_FailedReadLeavesState ==
    (FundingReadFailed \/ MarkReadFailed) =>
        /\ lastOp.raised
        /\ Calls = <<>>
        /\ position = Pre
        /\ store = lastOp.pre_store

\* a tick over a held Position whose funding payload had no recognized shape
C26_Witness ==
    /\ FundingReadFailed
    /\ lastOp.funding.exc = "RuntimeError"
    /\ Pre.held /\ position = Pre
    /\ store.exists /\ store = lastOp.pre_store

----------------------------------------------------------------------------
(* The loop of main.py without an end: ticks are scheduled for ever, the   *)
(* clock advances, and every order that is placed is accepted.  The engine *)
(* reads the clock only as now - opened_ts, so the clock is kept relative: *)
(* it is set back while the engine is Idle and stops counting once the     *)
(* holding window has passed.  The counters ticks and exch stay put.       *)

SpotAccepted == <<ClientError(1), ClientError(2), Ok(OrderAck(3))>>
PerpAccepted == <<ClientError(1), Ok(OrderAck(2))>>

Min(a, b) == IF a <= b THEN a ELSE b

\* one iteration of `while True` with orders accepted and state.json written
LiveTick ==
    /\ alive /\ pc = "tick"
    /\ \E fv \in FundingVectors, mv \in MarkVectors :
         LET out == check_and_trade(position, store, funding_threshold,
                                    target_usd_notional, now, fv,
                                    mv, SpotAccepted, PerpAccepted, SaveOk)
         IN  /\ position' = out.position
             /\ store' = out.file
             /\ alive' = LoopContinues(out)
             /\ lastOp' = OpRecord("tick", lastOp.op, position, store,
                                   _get_current_funding(fv), now, out,
                                   ReadsOf(out, fv, mv))
    /\ pc' = "sleep"
    /\ UNCHANGED <<funding_threshold, target_usd_notional, now, ticks, restarts,
                   exch, call>>

\* time.sleep(30), and whatever else makes time pass before the next tick
LiveSleep ==
    /\ alive /\ pc = "sleep"
    /\ \E d \in SleepHours :
         now' = IF position.held
                THEN Min(now + d, position.opened_ts + HoldingWindowHours + 1)
                ELSE 0
    /\ pc' = "tick"
    /\ lastOp' = IdleOp("sleep", lastOp.op, FALSE)
    /\ UNCHANGED <<position, store, funding_threshold, target_usd_notional, alive,
                   ticks, restarts, exch, call>>

NextLive == LiveTick \/ LiveSleep

\* the loop is never blocked: ticks keep being scheduled, the clock advances
SpecLive == Init /\ [][NextLive]_vars /\ WF_vars(LiveTick) /\ WF_vars(LiveSleep)

\* a tick whose funding-rate read returned a rate
ObservedTick == LiveTick /\ lastOp'.funding.ok

\* the same loop on an exchange whose funding-rate endpoint answers again
\* and again
SpecLiveObserved == SpecLive /\ SF_vars(ObservedTick)

\* C27: a Position that is Open is eventually closed, whenever ticks keep
\* being scheduled, the clock keeps advancing and every order placed is
\* accepted, whatever the funding-rate reads do.
C27_EventualClose == position.held ~> ~position.held

\* the same, on an exchange whose funding-rate reads succeed again and again
EventualCloseWhenObserved == position.held ~> ~position.held

----------------------------------------------------------------------------
(* The other two engines of the repository: the inline fallback            *)
(* FundingArbStrategy of streamlit_app.py and run_check_and_trade of       *)
(* mannual.py.  Neither keeps a position.                                  *)

\* streamlit_app.py, inline _get_current_funding: nothing is caught
InlineParseFunding(d) ==
    IF ~d.isdict THEN ShapeError(d) ELSE ManualParseFunding(d)

inline_get_current_funding(rs) ==
    LET r == get_funding_rate(rs) IN
    IF r.ok THEN InlineParseFunding(r.payload) ELSE Failure

\* streamlit_app.py, inline _get_mark_price: nothing is caught
InlineParseMark(d) ==
    IF ~d.isdict THEN ShapeError(d)
    ELSE IF d.kind = "dict" /\ ~IsNone(OrChain(d.elems[1].map))
    THEN (IF FloatOk(OrChain(d.elems[1].map))
          THEN Value(OrChain(d.elems[1].map).v)
          ELSE Fail(FloatError(OrChain(d.elems[1].map)), NoPayload))
    ELSE IF d.kind = "list" /\ Len(d.elems) > 0
    THEN (IF ~d.elems[1].isdict THEN Fail("AttributeError", NoPayload)
          ELSE IF IsNone(OrChain(d.elems[1].map)) THEN ShapeError(d)
          ELSE IF FloatOk(OrChain(d.elems[1].map))
          THEN Value(OrChain(d.elems[1].map).v)
          ELSE Fail(FloatError(OrChain(d.elems[1].map)), NoPayload))
    ELSE ShapeError(d)

inline_get_mark_price(rs) ==
    LET r == get_mark_price(rs) IN
    IF r.ok THEN InlineParseMark(r.payload) ELSE Failure

\* what a stateless engine leaves behind: the orders it sent
Sent(calls, raised) == Outcome(NoPosition, NoFile, calls, FALSE, FALSE, raised, FALSE)

\* streamlit_app.py, inline _open_pair_trade
inline_open_pair_trade(usd, mv, sv, pv) ==
    LET mark == inline_get_mark_price(mv) IN
    IF ~mark.ok \/ mark.v = 0 THEN Sent(<<>>, TRUE)
    ELSE
    LET qty_str == EntryQtyStr(usd, mark.v)
        spot == place_spot_order(sv)
        c1 == OrderCall("spot", "buy", qty_str, Some(usd), spot)
        perp == place_mix_order(pv)
        c2 == OrderCall("mix", "open_short", qty_str, NoneVal, perp)
    IN  IF ~spot.ok THEN Sent(<<c1>>, TRUE) ELSE Sent(<<c1, c2>>, ~perp.ok)

\* streamlit_app.py, inline check_and_trade
inline_check_and_trade(threshold, usd, fv, mv, sv, pv) ==
    LET f == inline_get_current_funding(fv) IN
    IF ~f.ok THEN Sent(<<>>, TRUE)
    ELSE IF f.v < threshold THEN Sent(<<>>, FALSE)
    ELSE inline_open_pair_trade(usd, mv, sv, pv)

\* mannual.py, run_check_and_trade
run_check_and_trade(funding_threshold_, usd_notional, fv, mv, sv, pv) ==
    LET funding == manual_get_funding_rate(fv) IN
    IF ~funding.ok THEN Sent(<<>>, TRUE)
    ELSE IF funding.v < funding_threshold_ THEN Sent(<<>>, FALSE)
    ELSE
    LET mark == manual_get_mark_price(mv).result IN
    IF ~mark.ok \/ mark.v = 0 THEN Sent(<<>>, TRUE)
    ELSE
    LET qty_str == EntryQtyStr(usd_notional, mark.v)
        spot == manual_place_spot_order(sv)
        c1 == OrderCall("spot", "buy", qty_str, Some(usd_notional), spot)
        perp == manual_place_mix_order(pv)
        c2 == OrderCall("mix", "open_short", qty_str, NoneVal, perp)
    IN  IF ~spot.ok THEN Sent(<<c1>>, TRUE) ELSE Sent(<<c1, c2>>, ~perp.ok)

\* the orders of a run, as the exchange sees them: side and quantity
OrdersOf(out) == [i \in 1..Len(out.calls) |-> <<out.calls[i].side, out.calls[i].quantity>>]

\* The three engines side by side: each tick hands the same answers of the
\* exchange to all three; orders are accepted and state.json is written.
\* position, store and lastOp are those of strategy.py's engine; call holds
\* the orders each engine sent in the tick.
EnginesTick ==
    /\ alive /\ pc = "tick" /\ ticks < MaxTicks
    /\ \E fv \in FundingVectors, mv \in MarkVectors :
         LET out == check_and_trade(position, store, funding_threshold,
                                    target_usd_notional, now, fv,
                                    mv, SpotAccepted, PerpAccepted, SaveOk)
             inline == inline_check_and_trade(funding_threshold, target_usd_notional,
                                              fv, mv, SpotAccepted, PerpAccepted)
             manual == run_check_and_trade(funding_threshold, target_usd_notional,
                                           fv, mv, SpotAccepted, PerpAccepted)
         IN  /\ position' = out.position
             /\ store' = out.file
             /\ alive' = LoopContinues(out)
             /\ exch' = Account(exch, out)
             /\ lastOp' = OpRecord("tick", lastOp.op, position, store,
                                   _get_current_funding(fv), now, out,
                                   ReadsOf(out, fv, mv))
             /\ call' = ApiCall("engines", <<fv, mv>>,
                                [strategy |-> OrdersOf(out), inline |-> OrdersOf(inline),
                                 manual |-> OrdersOf(manual)])
    /\ pc' = "sleep"
    /\ ticks' = ticks + 1
    /\ UNCHANGED <<funding_threshold, target_usd_notional, now, restarts>>

\* time passes between two ticks, for all three alike
EnginesSleep ==
    /\ alive /\ pc = "sleep"
    /\ \E d \in SleepHours : now' = now + d
    /\ pc' = "tick"
    /\ lastOp' = IdleOp("sleep", lastOp.op, FALSE)
    /\ UNCHANGED <<position, store, funding_threshold, target_usd_notional, alive,
                   ticks, restarts, exch, call>>

NextEngines == EnginesTick \/ EnginesSleep

SpecEngines == Init /\ [][NextEngines]_vars

Compared == call.op = "engines"

\* C28: given the same answers of the exchange tick after tick, starting
\* Idle, the inline engine of streamlit_app.py and run_check_and_trade of
\* mannual.py send the same orders, side for side and quantity for quantity,
\* as the engine of strategy.py.
C28_EnginesAgree ==
    Compared =>
        /\ call.result.inline = call.result.strategy
        /\ call.result.manual = call.result.strategy

\* the two stateless engines agree with the engine of strategy.py in every
\* tick that starts Idle with a mark-price payload of a recognized shape
EnginesAgreeWhenIdle ==
    (Compared /\ IdleTick /\ (lastOp.mark_read => lastOp.mark.ok)) =>
        /\ call.result.inline = call.result.strategy
        /\ call.result.manual = call.result.strategy

----------------------------------------------------------------------------
(* Network attempts of one tick *)

RECURSIVE OrderAttempts(_)
\* the requests sent for the orders in calls
OrderAttempts(calls) ==
    IF calls = <<>> THEN 0 ELSE Head(calls).attempts + OrderAttempts(Tail(calls))

\* the requests one tick sent: funding-rate read, mark-price read, orders
Attempts == lastOp.funding_attempts + lastOp.mark_attempts + OrderAttempts(Calls)

\* C29: within a tick nothing is retried beyond variant fallback: the
\* funding-rate read sends at most 2 requests, the mark-price read at most
\* 4, a spot order at most 3, a derivative order at most 2, and each is made
\* at most once; so a tick on the entry path sends at most 11 requests, a
\* tick on the exit path at most 7, and a tick that places no order and
\* reads no mark price at most 2.
C29_AttemptBounds ==
    TickDone =>
        /\ lastOp.funding_attempts \in 1..2
        /\ lastOp.mark_attempts <= 4
        /\ Len(Calls) <= 2
        /\ \A i \in 1..Len(Calls) :
              Calls[i].attempts <= (IF Calls[i].api = "spot" THEN 3 ELSE 2)
        /\ IdleTick => Attempts <= 11
        /\ OpenTick => lastOp.mark_attempts = 0 /\ Attempts <= 7
        /\ (Calls = <<>> /\ ~lastOp.mark_read) => Attempts <= 2

\* an entry tick in which every read and every order needed its last variant
C29_Witness ==
    /\ EntryTick
    /\ lastOp.funding_attempts = 2 /\ lastOp.mark_attempts = 4
    /\ Len(Calls) = 2 /\ Calls[1].attempts = 3 /\ Calls[2].attempts = 2
    /\ Attempts = 11

====
